---- MODULE Spec2Model ----
(***************************************************************************)
(* Model of the recommendation core of the movie recommendation system:   *)
(* db/recommend.py (EmbeddingModel, score_v1..v3, ScoreMetricVersion,      *)
(* get_recommendations, get_movie_by_id, get_similar_movies), the two      *)
(* tables of db/models.py and the sessions of db/database.py.              *)
(*                                                                         *)
(* Numbers are fixed point: distances and similarities in 1/1000,          *)
(* vote_average in 1/10, scores in 1/1000000.  A vector of dimension dim   *)
(* is represented by its first two components, the others being zero.      *)
(* A nullable value is a sequence of length at most one: <<>> is NULL /    *)
(* None and <<v>> is the value v.                                          *)
(***************************************************************************)
EXTENDS Integers, Sequences, FiniteSets, TLC

VARIABLES
    movies,       \* table movies: movie_id -> row
    embeddings,   \* table movie_embedding_openai: movie_id -> row
    sessions,     \* live Session objects: session id -> [owner, log]
    calls,        \* worker -> the call it is executing (or has finished)
    script,       \* calls a scripted client still has to make
    transcript,   \* what the scripted client's calls returned, in order
    scoring,      \* a scoring expression and the scores the store computed with it
    requests,     \* worker -> the HTTP request it is serving
    test,         \* tests/test1.py: the run of recommend_movies
    limiter,      \* a RateLimiter, the clock and the coroutines calling acquire()
    generation,   \* db/2-generate_embeddings.py: the run of generate_missing_embeddings
    removal,      \* db/3-remove_movies_no_poster.py: the run of the two removals
    posters       \* db/2-update_movies_poster.py: the run of the poster update

\* the state of the maintenance scripts and of the test
offline == <<test, limiter, generation, removal, posters>>

vars == <<movies, embeddings, sessions, calls, script, transcript, scoring, requests,
          test, limiter, generation, removal, posters>>

(***************************************************************************)
(* Bounds of the model.                                                    *)
(***************************************************************************)
MaxMovies == 3
MaxPage == 2
MaxPerPage == 2
MaxPages == 2
MaxCoroutines == 3
MaxRequests == 2
MaxHalves == 4
MaxBatchSize == 2
MaxWorkers == 2

(***************************************************************************)
(* Nullable values.                                                        *)
(***************************************************************************)
Null == <<>>
Some(v) == <<v>>
IsNull(o) == o = <<>>
Val(o) == o[1]

Min(a, b) == IF a <= b THEN a ELSE b
Max(a, b) == IF a >= b THEN a ELSE b

(***************************************************************************)
(* db/models.py: the vector columns and their declared dimensionality.     *)
(***************************************************************************)
ColumnDim(col) == IF col = "embedding_3_large" THEN 3072 ELSE 1536

(***************************************************************************)
(* db/recommend.py: EmbeddingModel = (model_name, db_column).              *)
(***************************************************************************)
EmbeddingModel == {"ADA_002", "SMALL_3", "LARGE_3"}

ModelName(m) ==
    CASE m = "ADA_002" -> "text-embedding-ada-002"
      [] m = "SMALL_3" -> "text-embedding-3-small"
      [] m = "LARGE_3" -> "text-embedding-3-large"

DbColumn(m) ==
    CASE m = "ADA_002" -> "embedding_ada_002"
      [] m = "SMALL_3" -> "embedding_3_small"
      [] m = "LARGE_3" -> "embedding_3_large"

ScoreMetricVersion == {"V1", "V2", "V3"}

\* what a caller may pass as embedding_model and score_metric_version: Python
\* checks no annotation, so also the plain model name (as
\* mlflow_experiments/exp_openai.py does) or the plain version string
EmbeddingModelArguments == EmbeddingModel \cup {"text-embedding-3-large"}
ScoreMetricVersionArguments == ScoreMetricVersion \cup {"v3"}

\* The length of the vector the embedding provider returns for a model name.
EmbedderDim(name) == IF name = "text-embedding-3-large" THEN 3072 ELSE 1536

(***************************************************************************)
(* Vectors and pgvector's cosine distance (operator <=>), in 1/1000.       *)
(***************************************************************************)
Vec(dim, x, y) == [dim |-> dim, x |-> x, y |-> y]

\* floor of the square root
ISqrt(n) == CHOOSE r \in 0..n : r * r <= n /\ (r + 1) * (r + 1) > n

Norm(v) == ISqrt(v.x * v.x + v.y * v.y)

Dot(a, b) == a.x * b.x + a.y * b.y

\* 1 - cos(a, b); both vectors are non-zero and of the same dimension
CosineDistance(a, b) == 1000 - ((1000 * Dot(a, b)) \div (Norm(a) * Norm(b)))

(***************************************************************************)
(* PostgreSQL's log(): the base 10 logarithm, in 1/1000, of n >= 1.        *)
(* The integer part by division, ten binary digits of the fraction by      *)
(* repeated squaring.                                                      *)
(***************************************************************************)
RECURSIVE Log10Int(_)
Log10Int(n) == IF n < 10 THEN 0 ELSE 1 + Log10Int(n \div 10)

RECURSIVE Pow10(_)
Pow10(k) == IF k = 0 THEN 1 ELSE 10 * Pow10(k - 1)

RECURSIVE Log10Frac(_, _, _)
Log10Frac(y, bit, acc) ==
    IF bit > 10 THEN acc
    ELSE LET sq == (y * y) \div 1000
         IN  IF sq >= 10000
             THEN Log10Frac(sq \div 10, bit + 1, acc + (1024 \div (2 ^ bit)))
             ELSE Log10Frac(sq, bit + 1, acc)

Log10Milli(n) ==
    LET i == Log10Int(n)
        y == IF i >= 3 THEN n \div Pow10(i - 3) ELSE n * Pow10(3 - i)
    IN  1000 * i + ((1000 * Log10Frac(y, 1, 0)) \div 1024)

(***************************************************************************)
(* db/models.py: rows of the two tables.                                   *)
(***************************************************************************)
MovieIds == 1..MaxMovies

\* an id no movie has
UnknownId == MaxMovies + 1

Movie(id, va, vc) == [movie_id |-> id, vote_average |-> va, vote_count |-> vc]

MovieEmbeddingOpenAI(id, ada, small, large) ==
    [movie_id |-> id,
     embedding_ada_002 |-> ada,
     embedding_3_small |-> small,
     embedding_3_large |-> large]

\* the rows joined by Movie.movie_id == MovieEmbeddingOpenAI.movie_id
JoinedIds(mv, emb) == DOMAIN mv \cap DOMAIN emb

(***************************************************************************)
(* db/recommend.py: the three scoring expressions, evaluated by the store  *)
(* for one joined row.  SQL arithmetic on NULL gives NULL.                 *)
(***************************************************************************)
\* embedding_model.db_column.cosine_distance(embedding)
DistanceExpr(embedding, embedding_model, erow) ==
    LET stored == erow[DbColumn(embedding_model)]
    IN  IF IsNull(stored) THEN Null
        ELSE Some(CosineDistance(Val(stored), embedding))

\* variant: the distance itself returned as the score
score_v1OfDistance(embedding, embedding_model, mrow, erow) ==
    LET similarity == DistanceExpr(embedding, embedding_model, erow)
    IN  IF IsNull(similarity) THEN Null
        ELSE Some(1000 * Val(similarity))

score_v1(embedding, embedding_model, mrow, erow) ==
    LET similarity == DistanceExpr(embedding, embedding_model, erow)
    IN  IF IsNull(similarity) THEN Null
        ELSE Some(1000 * (1000 - Val(similarity)))

\* variant: the distance weighted where the similarity should be
score_v2OfDistance(embedding, embedding_model, mrow, erow) ==
    LET similarity == DistanceExpr(embedding, embedding_model, erow)
    IN  IF IsNull(similarity) \/ IsNull(mrow.vote_average) \/ IsNull(mrow.vote_count)
        THEN Null
        ELSE Some(800 * Val(similarity)
                  + 200 * (Val(mrow.vote_average) * 10)
                  + 100 * Log10Milli(1 + Val(mrow.vote_count)))

score_v2(embedding, embedding_model, mrow, erow) ==
    LET similarity == DistanceExpr(embedding, embedding_model, erow)
    IN  IF IsNull(similarity) \/ IsNull(mrow.vote_average) \/ IsNull(mrow.vote_count)
        THEN Null
        ELSE Some(800 * (1000 - Val(similarity))
                  + 200 * (Val(mrow.vote_average) * 10)
                  + 100 * Log10Milli(1 + Val(mrow.vote_count)))

\* variant: vote_average not divided by 10
score_v3UnscaledRating(embedding, embedding_model, mrow, erow) ==
    LET similarity == DistanceExpr(embedding, embedding_model, erow)
    IN  IF IsNull(similarity) \/ IsNull(mrow.vote_average) \/ IsNull(mrow.vote_count)
        THEN Null
        ELSE Some(900 * (1000 - Val(similarity))
                  + 70 * (Val(mrow.vote_average) * 100)
                  + 30 * Min(10000, Log10Milli(1 + Val(mrow.vote_count))))

score_v3(embedding, embedding_model, mrow, erow) ==
    LET similarity == DistanceExpr(embedding, embedding_model, erow)
    IN  IF IsNull(similarity) \/ IsNull(mrow.vote_average) \/ IsNull(mrow.vote_count)
        THEN Null
        ELSE Some(900 * (1000 - Val(similarity))
                  + 70 * (Val(mrow.vote_average) * 10)
                  + 30 * Min(10000, Log10Milli(1 + Val(mrow.vote_count))))

\* ScoreMetricVersion.score_function
ScoreFunction(version, embedding, embedding_model, mrow, erow) ==
    CASE version = "V1" -> score_v1(embedding, embedding_model, mrow, erow)
      [] version = "V2" -> score_v2(embedding, embedding_model, mrow, erow)
      [] version = "V3" -> score_v3(embedding, embedding_model, mrow, erow)

(***************************************************************************)
(* The statements the three functions build.                               *)
(***************************************************************************)
\* variant: pages counted from 0
OffsetCountingFromZero(page, per_page) == page * per_page

Offset(page, per_page) == (page - 1) * per_page

\* select(Movie).join(...).order_by(score.desc()).offset(offset).limit(per_page)
RecommendStmt(embedding, embedding_model, version, page, per_page) ==
    [kind |-> "select", what |-> "ranking",
     embedding |-> embedding, embedding_model |-> embedding_model,
     version |-> version, exclude |-> Null,
     offset |-> Offset(page, per_page), limit |-> per_page, movie_id |-> 0]

\* variant: the WHERE clause forgotten
SimilarStmtWithoutExclusion(movie_id, embedding, embedding_model, version, page, per_page) ==
    [kind |-> "select", what |-> "ranking",
     embedding |-> embedding, embedding_model |-> embedding_model,
     version |-> version, exclude |-> Null,
     offset |-> (page - 1) * per_page, limit |-> per_page, movie_id |-> movie_id]

\* variant: OFFSET left out of the statement built with score_v1
SimilarStmtIgnoringOffsetV1(movie_id, embedding, embedding_model, version, page, per_page) ==
    [kind |-> "select", what |-> "ranking",
     embedding |-> embedding, embedding_model |-> embedding_model,
     version |-> version, exclude |-> Some(movie_id),
     offset |-> IF version = "V1" THEN 0 ELSE Offset(page, per_page),
     limit |-> per_page, movie_id |-> movie_id]

\* the same with .where(Movie.movie_id != movie_id)
SimilarStmt(movie_id, embedding, embedding_model, version, page, per_page) ==
    [kind |-> "select", what |-> "ranking",
     embedding |-> embedding, embedding_model |-> embedding_model,
     version |-> version, exclude |-> Some(movie_id),
     offset |-> Offset(page, per_page), limit |-> per_page, movie_id |-> movie_id]

\* select(embedding_model.db_column).where(MovieEmbeddingOpenAI.movie_id == movie_id)
TargetStmt(movie_id, embedding_model) ==
    [kind |-> "select", what |-> "target",
     embedding |-> Vec(0, 0, 0), embedding_model |-> embedding_model,
     version |-> "V1", exclude |-> Null,
     offset |-> 0, limit |-> 0, movie_id |-> movie_id]

\* variant: the lookup also counts a view (UPDATE ... RETURNING)
MovieByIdStmtCountingViews(movie_id) ==
    [kind |-> "update", what |-> "movie",
     embedding |-> Vec(0, 0, 0), embedding_model |-> "ADA_002",
     version |-> "V1", exclude |-> Null,
     offset |-> 0, limit |-> 0, movie_id |-> movie_id]

\* select(Movie).where(Movie.movie_id == movie_id)
MovieByIdStmt(movie_id) ==
    [kind |-> "select", what |-> "movie",
     embedding |-> Vec(0, 0, 0), embedding_model |-> "ADA_002",
     version |-> "V1", exclude |-> Null,
     offset |-> 0, limit |-> 0, movie_id |-> movie_id]

(***************************************************************************)
(* The store's evaluation of a ranking statement.                          *)
(***************************************************************************)
\* the rows the join and the WHERE clause keep
Candidates(mv, emb, stmt) ==
    {id \in JoinedIds(mv, emb) : IsNull(stmt.exclude) \/ id # Val(stmt.exclude)}

ScoreOf(mv, emb, stmt, id) ==
    ScoreFunction(stmt.version, stmt.embedding, stmt.embedding_model, mv[id], emb[id])

\* ORDER BY score DESC: PostgreSQL sorts NULL before every value when the
\* order is descending; a may stand before b
MayPrecede(sa, sb) == IsNull(sa) \/ (~IsNull(sb) /\ Val(sa) >= Val(sb))

\* the rows of S that may come first
First(S, score) == {x \in S : \A y \in S : MayPrecede(score[x], score[y])}

\* every descending order of S: a first row, then an order of the others
RECURSIVE Sorted(_, _)
Sorted(S, score) ==
    IF S = {} THEN {<<>>}
    ELSE UNION {{<<x>> \o rest : rest \in Sorted(S \ {x}, score)} : x \in First(S, score)}

\* every order the store may produce: rows of equal score come in any order
SortedOrders(mv, emb, stmt) ==
    LET cand == Candidates(mv, emb, stmt)
        score == [id \in cand |-> ScoreOf(mv, emb, stmt, id)]
    IN  Sorted(cand, score)

\* variant: the limit taken as the index of the last row
SliceThroughLimit(seq, offset, limit) == SubSeq(seq, offset + 1, Min(Len(seq), offset + limit + 1))

\* OFFSET offset LIMIT limit
Slice(seq, offset, limit) == SubSeq(seq, offset + 1, Min(Len(seq), offset + limit))

\* pgvector refuses to compare vectors of different dimensions
DimensionMismatch(mv, emb, stmt) ==
    \E id \in Candidates(mv, emb, stmt) :
        LET stored == emb[id][DbColumn(stmt.embedding_model)]
        IN  ~IsNull(stored) /\ Val(stored).dim # stmt.embedding.dim

\* variant: the excluded movie is dropped from the page after OFFSET and LIMIT
RankingResultsExcludingLate(mv, emb, stmt) ==
    LET all == JoinedIds(mv, emb)
        score == [id \in all |-> ScoreOf(mv, emb, stmt, id)]
        kept(id) == IsNull(stmt.exclude) \/ id # Val(stmt.exclude)
    IN  {[i \in DOMAIN page |-> mv[page[i]]] :
            page \in {SelectSeq(Slice(f, stmt.offset, stmt.limit), kept) :
                         f \in Sorted(all, score)}}

\* the pages the ranking statement may return, as lists of Movie rows
RankingResults(mv, emb, stmt) ==
    {[i \in DOMAIN page |-> mv[page[i]]] :
        page \in {Slice(f, stmt.offset, stmt.limit) : f \in SortedOrders(mv, emb, stmt)}}

\* variant: a NULL column falls back to the ada-002 vector
TargetResultWithFallback(emb, stmt) ==
    IF stmt.movie_id \in DOMAIN emb
    THEN IF IsNull(emb[stmt.movie_id][DbColumn(stmt.embedding_model)])
         THEN emb[stmt.movie_id]["embedding_ada_002"]
         ELSE emb[stmt.movie_id][DbColumn(stmt.embedding_model)]
    ELSE Null

\* scalar_one_or_none() of the target statement: the column value, or None
\* when no row matches or the column is NULL
TargetResult(emb, stmt) ==
    IF stmt.movie_id \in DOMAIN emb
    THEN emb[stmt.movie_id][DbColumn(stmt.embedding_model)]
    ELSE Null

\* scalar_one_or_none() of the movie statement
MovieResult(mv, stmt) ==
    IF stmt.movie_id \in DOMAIN mv THEN Some(mv[stmt.movie_id]) ELSE Null

(***************************************************************************)
(* db/database.py: SessionLocal() makes a new Session on every call        *)
(* (autocommit=False).  A session is its owner (the call that made it),    *)
(* the callers that used it, and the log of what was done with it.         *)
(***************************************************************************)
SessionLocal(owner) == [owner |-> owner, users |-> {}, log |-> <<>>]

\* s after worker w has called a method of it
UsedBy(s, w) == [s EXCEPT !.users = @ \cup {w}]

\* the smallest id no live session has
FreshSessionId == CHOOSE n \in 1..(Cardinality(DOMAIN sessions) + 1) : n \notin DOMAIN sessions

SessionExecute(s, stmt, ok) ==
    [s EXCEPT !.log = Append(@, IF ~ok THEN "failed"
                                ELSE IF stmt.kind = "select" THEN "select"
                                ELSE "write")]

SessionRollback(s) == [s EXCEPT !.log = Append(@, "rollback")]

SessionClose(s) == [s EXCEPT !.log = Append(@, "close")]

Contains(seq, e) == \E i \in DOMAIN seq : seq[i] = e

IsClosed(s) == Contains(s.log, "close")

\* the sessions that stay when a call of worker w has ended: its Session
\* object is garbage, and gone unless it still holds its connection
WithoutSessionsOf(w) ==
    [sid \in {x \in DOMAIN sessions : sessions[x].owner # w \/ ~IsClosed(sessions[x])} |->
        sessions[sid]]

(***************************************************************************)
(* The embedding provider's answers to openai.embeddings.create.           *)
(***************************************************************************)
DirA == <<3, 4>>
DirB == <<4, 3>>

\* the vector of the prompt, the call failing, a response whose data list is
\* empty, or a vector that has the length of another model's vectors
EmbedderAnswers == {"vector", "api_error", "empty_data", "wrong_length"}

\* a length that is not d
OtherDim(d) == IF d = 1536 THEN 3072 ELSE 1536

\* response.data[0].embedding, taken as it comes
AnswerVector(answer, model_name) ==
    Vec(IF answer = "wrong_length" THEN OtherDim(EmbedderDim(model_name))
        ELSE EmbedderDim(model_name),
        DirA[1], DirA[2])

(***************************************************************************)
(* Calls and their outcomes.                                               *)
(***************************************************************************)
ListOutcome(rows) == [kind |-> "list", rows |-> rows, error |-> ""]
MovieOutcome(row) == [kind |-> "movie", rows |-> <<row>>, error |-> ""]
NoneOutcome == [kind |-> "none", rows |-> <<>>, error |-> ""]
ErrorOutcome(e) == [kind |-> "error", rows |-> <<>>, error |-> e]

IdleCall ==
    [op |-> "none", pc |-> "idle", movie_id |-> 0, page |-> 1, per_page |-> 1,
     embedding_model |-> "ADA_002", score_metric_version |-> "V1", answer |-> "-",
     embedding |-> Null, session |-> Null, embeds |-> 0, queries |-> 0,
     pending |-> Null, outcome |-> Null]

Workers == DOMAIN calls

\* no request being served; escaped is the exception that left the handler
\* function uncaught, if one did
IdleRequest ==
    [route |-> "none", pc |-> "idle", movie_id |-> 0, page |-> 1,
     lookup |-> Null, similar_calls |-> 0, escaped |-> Null, response |-> Null]

\* nothing of the test and of the maintenance scripts has run
NoTest ==
    [pc |-> "idle", embedding_model |-> "text-embedding-ada-002", top_k |-> 10,
     answer |-> "-", embedded_with |-> Null, query_embedding |-> Null,
     column |-> Null, session |-> Null, pending |-> Null, outcome |-> Null]
\* RateLimiter.__init__ with its default, nobody calling acquire()
NoLimiter == [max_requests |-> 40, requests |-> <<>>, time |-> 0, co |-> <<>>, grants |-> <<>>]
\* generate_missing_embeddings not called
NoGeneration ==
    [pc |-> "idle", max_workers |-> 3, batches |-> <<>>, tasks |-> <<>>,
     current |-> 0, pending |-> <<>>]
\* db/3-remove_movies_no_poster.py: main() not started
NoRemoval ==
    [pc |-> "idle", column |-> "poster_path", batch_size |-> 50, found |-> <<>>,
     i |-> 0, deleted |-> {}, deleted_embeddings |-> {}]
\* db/2-update_movies_poster.py: main() not started
NoPosters ==
    [pc |-> "idle", before |-> <<>>, found |-> <<>>, i |-> 0, batch_size |-> 50,
     tasks |-> <<>>, fetched |-> <<>>, dirty |-> <<>>]

InitOffline ==
    /\ test = NoTest
    /\ limiter = NoLimiter
    /\ generation = NoGeneration
    /\ removal = NoRemoval
    /\ posters = NoPosters

\* no scoring expression built
NoScoring ==
    [pc |-> "idle", version |-> "V1", embedding_model |-> "ADA_002",
     embedding |-> Null, scores |-> <<>>]

\* the statement a ranking call executes
StmtOf(c) ==
    IF c.op = "get_recommendations"
    THEN RecommendStmt(Val(c.embedding), c.embedding_model, c.score_metric_version,
                       c.page, c.per_page)
    ELSE SimilarStmt(c.movie_id, Val(c.embedding), c.embedding_model,
                     c.score_metric_version, c.page, c.per_page)

\* variant: a failure of the embedder is answered with an empty list
StartRecommendationsSwallowing(w, page, per_page, model, version, answer) ==
    LET c == [IdleCall EXCEPT !.op = "get_recommendations",
                              !.page = page, !.per_page = per_page,
                              !.embedding_model = model,
                              !.score_metric_version = version,
                              !.answer = answer, !.embeds = 1]
    IN  /\ UNCHANGED sessions
        /\ calls' = [calls EXCEPT ![w] =
              IF answer \in {"api_error", "empty_data"}
              THEN [c EXCEPT !.pc = "done", !.outcome = Some(ListOutcome(<<>>))]
              ELSE [c EXCEPT !.pc = "session",
                             !.embedding = Some(AnswerVector(answer, ModelName(model)))]]

(***************************************************************************)
(* get_recommendations, lines 102-120: the offset, the embedder call and   *)
(* the statement.  An exception of the embedder call (line 105) or of      *)
(* response.data[0] (line 107) leaves the function at once, and so does    *)
(* the AttributeError of embedding_model.model_name (line 105, before the  *)
(* embedder is called) or of score_metric_version.score_function (line     *)
(* 109) when the argument is not a member of the enumeration.              *)
(***************************************************************************)
StartRecommendations(w, page, per_page, model, version, answer) ==
    LET c == [IdleCall EXCEPT !.op = "get_recommendations",
                              !.page = page, !.per_page = per_page,
                              !.embedding_model = model,
                              !.score_metric_version = version,
                              !.answer = answer, !.embeds = 1]
    IN  /\ UNCHANGED sessions
        /\ calls' = [calls EXCEPT ![w] =
              CASE model \notin EmbeddingModel ->
                     [c EXCEPT !.pc = "done", !.answer = "-", !.embeds = 0,
                               !.outcome = Some(ErrorOutcome("AttributeError"))]
                [] answer = "api_error" ->
                     [c EXCEPT !.pc = "done", !.outcome = Some(ErrorOutcome("APIError"))]
                [] answer = "empty_data" ->
                     [c EXCEPT !.pc = "done", !.outcome = Some(ErrorOutcome("IndexError"))]
                [] version \notin ScoreMetricVersion ->
                     [c EXCEPT !.pc = "done",
                               !.embedding = Some(AnswerVector(answer, ModelName(model))),
                               !.outcome = Some(ErrorOutcome("AttributeError"))]
                [] OTHER ->
                     [c EXCEPT !.pc = "session",
                               !.embedding = Some(AnswerVector(answer, ModelName(model)))]]

\* get_movie_by_id up to line 137
StartMovieById(w, movie_id) ==
    /\ UNCHANGED sessions
    /\ calls' = [calls EXCEPT ![w] =
          [IdleCall EXCEPT !.op = "get_movie_by_id", !.pc = "session",
                           !.movie_id = movie_id]]

\* get_similar_movies up to line 158
StartSimilar(w, movie_id, page, per_page, model, version) ==
    /\ UNCHANGED sessions
    /\ calls' = [calls EXCEPT ![w] =
          [IdleCall EXCEPT !.op = "get_similar_movies", !.pc = "session",
                           !.movie_id = movie_id,
                           !.page = page, !.per_page = per_page,
                           !.embedding_model = model,
                           !.score_metric_version = version]]

CanCall(w) == calls[w].pc = "idle"

CallGetRecommendations(w) ==
    /\ CanCall(w)
    /\ \E page \in 1..MaxPage, per_page \in 1..MaxPerPage,
          model \in EmbeddingModel, version \in ScoreMetricVersion,
          answer \in EmbedderAnswers :
            StartRecommendations(w, page, per_page, model, version, answer)
    /\ UNCHANGED <<movies, embeddings, script, transcript, scoring, requests, offline>>

CallGetMovieById(w) ==
    /\ CanCall(w)
    /\ \E movie_id \in MovieIds \cup {UnknownId} : StartMovieById(w, movie_id)
    /\ UNCHANGED <<movies, embeddings, script, transcript, scoring, requests, offline>>

CallGetSimilarMovies(w) ==
    /\ CanCall(w)
    /\ \E movie_id \in MovieIds \cup {UnknownId},
          page \in 1..MaxPage, per_page \in 1..MaxPerPage,
          model \in EmbeddingModel, version \in ScoreMetricVersion :
            StartSimilar(w, movie_id, page, per_page, model, version)
    /\ UNCHANGED <<movies, embeddings, script, transcript, scoring, requests, offline>>

\* the same two calls with arguments of any kind
CallGetRecommendationsAnyConfig(w) ==
    /\ CanCall(w)
    /\ \E page \in 1..MaxPage, per_page \in 1..MaxPerPage,
          model \in EmbeddingModelArguments, version \in ScoreMetricVersionArguments,
          answer \in EmbedderAnswers :
            StartRecommendations(w, page, per_page, model, version, answer)
    /\ UNCHANGED <<movies, embeddings, script, transcript, scoring, requests, offline>>

CallGetSimilarMoviesAnyConfig(w) ==
    /\ CanCall(w)
    /\ \E movie_id \in MovieIds \cup {UnknownId},
          page \in 1..MaxPage, per_page \in 1..MaxPerPage,
          model \in EmbeddingModelArguments, version \in ScoreMetricVersionArguments :
            StartSimilar(w, movie_id, page, per_page, model, version)
    /\ UNCHANGED <<movies, embeddings, script, transcript, scoring, requests, offline>>

\* the defaults of the two parameters (lines 90-91)
EMBEDDING_MODEL == "LARGE_3"
SCORE_METRIC_VERSION == "V3"

\* the same two calls with embedding_model and score_metric_version left out
\* and one page size for all pages
CallGetRecommendationsByDefault(w) ==
    /\ CanCall(w)
    /\ \E page \in 1..MaxPage, answer \in EmbedderAnswers :
            StartRecommendations(w, page, MaxPerPage, EMBEDDING_MODEL, SCORE_METRIC_VERSION, answer)
    /\ UNCHANGED <<movies, embeddings, script, transcript, scoring, requests, offline>>

CallGetSimilarMoviesByDefault(w) ==
    /\ CanCall(w)
    /\ \E movie_id \in MovieIds \cup {UnknownId}, page \in 1..MaxPage :
            StartSimilar(w, movie_id, page, MaxPerPage, EMBEDDING_MODEL, SCORE_METRIC_VERSION)
    /\ UNCHANGED <<movies, embeddings, script, transcript, scoring, requests, offline>>

\* variant: one session made when the module is loaded serves every call
OpenSessionShared(w) ==
    /\ calls[w].pc = "session"
    /\ LET sid == IF DOMAIN sessions = {} THEN FreshSessionId
                  ELSE CHOOSE x \in DOMAIN sessions : \A y \in DOMAIN sessions : x <= y
       IN  /\ sessions' = [x \in DOMAIN sessions \cup {sid} |->
                              IF x \in DOMAIN sessions THEN sessions[x] ELSE SessionLocal(w)]
           /\ calls' = [calls EXCEPT ![w].session = Some(sid),
                                     ![w].pc = IF calls[w].op = "get_recommendations" THEN "rank"
                                               ELSE IF calls[w].op = "get_movie_by_id" THEN "lookup"
                                               ELSE "target"]
    /\ UNCHANGED <<movies, embeddings, script, transcript, scoring, requests, offline>>

(***************************************************************************)
(* session = SessionLocal()   (lines 122, 137, 158)                        *)
(***************************************************************************)
OpenSession(w) ==
    /\ calls[w].pc = "session"
    /\ LET sid == FreshSessionId
       IN  /\ sessions' = [x \in DOMAIN sessions \cup {sid} |->
                              IF x = sid THEN SessionLocal(w) ELSE sessions[x]]
           /\ calls' = [calls EXCEPT ![w].session = Some(sid),
                                     ![w].pc = IF calls[w].op = "get_recommendations" THEN "rank"
                                               ELSE IF calls[w].op = "get_movie_by_id" THEN "lookup"
                                               ELSE "target"]
    /\ UNCHANGED <<movies, embeddings, script, transcript, scoring, requests, offline>>

\* what a failing session.execute does to the call: control goes to the
\* except clause with the store's error
Failed(w, stmt) ==
    /\ sessions' = [sessions EXCEPT ![Val(calls[w].session)] =
                        UsedBy(SessionExecute(@, stmt, FALSE), w)]
    /\ calls' = [calls EXCEPT ![w].pc = "except",
                              ![w].queries = @ + 1,
                              ![w].pending = Some(ErrorOutcome("StoreError"))]

\* an exception raised inside the try block by the function's own code:
\* control goes to the except clause, no statement was executed
Raised(w, e) ==
    /\ UNCHANGED sessions
    /\ calls' = [calls EXCEPT ![w].pc = "except",
                              ![w].pending = Some(ErrorOutcome(e))]

Executed(w, stmt, c) ==
    /\ sessions' = [sessions EXCEPT ![Val(calls[w].session)] =
                        UsedBy(SessionExecute(@, stmt, TRUE), w)]
    /\ calls' = [calls EXCEPT ![w] = [c EXCEPT !.queries = @ + 1]]

\* variant: scalar_one() in place of scalar_one_or_none()
ExecuteLookupScalarOne(w) ==
    /\ calls[w].pc = "lookup"
    /\ LET stmt == MovieByIdStmt(calls[w].movie_id)
           found == MovieResult(movies, stmt)
       IN  \/ Executed(w, stmt,
                 IF IsNull(found)
                 THEN [calls[w] EXCEPT !.pc = "except",
                                       !.pending = Some(ErrorOutcome("NoResultFound"))]
                 ELSE [calls[w] EXCEPT !.pc = "finally",
                                       !.pending = Some(MovieOutcome(Val(found)))])
           \/ Failed(w, stmt)
    /\ UNCHANGED <<movies, embeddings, script, transcript, scoring, requests, offline>>

\* get_movie_by_id, lines 139-141
ExecuteLookup(w) ==
    /\ calls[w].pc = "lookup"
    /\ LET stmt == MovieByIdStmt(calls[w].movie_id)
           found == MovieResult(movies, stmt)
       IN  \/ Executed(w, stmt,
                 [calls[w] EXCEPT !.pc = "finally",
                                  !.pending = Some(IF IsNull(found) THEN NoneOutcome
                                                   ELSE MovieOutcome(Val(found)))])
           \/ Failed(w, stmt)
    /\ UNCHANGED <<movies, embeddings, script, transcript, scoring, requests, offline>>

\* variant: the early return leaves before the session is closed
ExecuteTargetReturningEarly(w) ==
    /\ calls[w].pc = "target"
    /\ LET stmt == TargetStmt(calls[w].movie_id, calls[w].embedding_model)
           target_embedding == TargetResult(embeddings, stmt)
       IN  \/ Executed(w, stmt,
                 IF IsNull(target_embedding)
                 THEN [calls[w] EXCEPT !.pc = "done", !.outcome = Some(ListOutcome(<<>>))]
                 ELSE [calls[w] EXCEPT !.pc = "rank", !.embedding = target_embedding])
           \/ Failed(w, stmt)
    /\ UNCHANGED <<movies, embeddings, script, transcript, scoring, requests, offline>>

\* get_similar_movies, lines 161-167: embedding_model.db_column (line 161)
\* and score_metric_version.score_function (line 167, reached only when the
\* target has a vector) raise AttributeError for an argument that is not a
\* member of the enumeration
ExecuteTarget(w) ==
    /\ calls[w].pc = "target"
    /\ IF calls[w].embedding_model \notin EmbeddingModel
       THEN Raised(w, "AttributeError")
       ELSE LET stmt == TargetStmt(calls[w].movie_id, calls[w].embedding_model)
                target_embedding == TargetResult(embeddings, stmt)
            IN  \/ Executed(w, stmt,
                      IF IsNull(target_embedding)
                      THEN [calls[w] EXCEPT !.pc = "finally",
                                            !.pending = Some(ListOutcome(<<>>))]
                      ELSE IF calls[w].score_metric_version \notin ScoreMetricVersion
                      THEN [calls[w] EXCEPT !.pc = "except",
                                            !.embedding = target_embedding,
                                            !.pending = Some(ErrorOutcome("AttributeError"))]
                      ELSE [calls[w] EXCEPT !.pc = "rank", !.embedding = target_embedding])
                \/ Failed(w, stmt)
    /\ UNCHANGED <<movies, embeddings, script, transcript, scoring, requests, offline>>

\* get_recommendations, lines 125-126; get_similar_movies, lines 167-182
ExecuteRanking(w) ==
    /\ calls[w].pc = "rank"
    /\ LET stmt == StmtOf(calls[w])
       IN  \/ /\ ~DimensionMismatch(movies, embeddings, stmt)
              /\ \E results \in RankingResults(movies, embeddings, stmt) :
                     Executed(w, stmt,
                         [calls[w] EXCEPT !.pc = "finally",
                                          !.pending = Some(ListOutcome(results))])
           \/ Failed(w, stmt)
    /\ UNCHANGED <<movies, embeddings, script, transcript, scoring, requests, offline>>

\* variant: except Exception: session.rollback(); return []
RollbackSwallowing(w) ==
    /\ calls[w].pc = "except"
    /\ sessions' = [sessions EXCEPT ![Val(calls[w].session)] = SessionRollback(@)]
    /\ calls' = [calls EXCEPT ![w].pc = "finally", ![w].pending = Some(ListOutcome(<<>>))]
    /\ UNCHANGED <<movies, embeddings, script, transcript, scoring, requests, offline>>

\* except Exception as e: session.rollback(); raise e
Rollback(w) ==
    /\ calls[w].pc = "except"
    /\ sessions' = [sessions EXCEPT ![Val(calls[w].session)] = UsedBy(SessionRollback(@), w)]
    /\ calls' = [calls EXCEPT ![w].pc = "finally"]
    /\ UNCHANGED <<movies, embeddings, script, transcript, scoring, requests, offline>>

\* finally: session.close(); then the return value or the exception reaches
\* the caller
Close(w) ==
    /\ calls[w].pc = "finally"
    /\ sessions' = [sessions EXCEPT ![Val(calls[w].session)] = UsedBy(SessionClose(@), w)]
    /\ calls' = [calls EXCEPT ![w].pc = "done",
                              ![w].outcome = calls[w].pending,
                              ![w].pending = Null]
    /\ UNCHANGED <<movies, embeddings, script, transcript, scoring, requests, offline>>

\* the caller has the outcome; the frame of the call is gone
Return(w) ==
    /\ calls[w].pc = "done"
    /\ calls' = [calls EXCEPT ![w] = IdleCall]
    /\ sessions' = WithoutSessionsOf(w)
    /\ UNCHANGED <<movies, embeddings, script, transcript, scoring, requests, offline>>

(***************************************************************************)
(* A client that makes a fixed list of calls one after the other and       *)
(* keeps what each returned: pages 1..k of a query with page size s, then  *)
(* page 1 with page size k*s (for k = 1: the same call twice).             *)
(***************************************************************************)
ScriptCall(op, movie_id, model, version, answer, page, per_page) ==
    [op |-> op, movie_id |-> movie_id, embedding_model |-> model,
     score_metric_version |-> version, answer |-> answer,
     page |-> page, per_page |-> per_page]

PageScript(op, movie_id, model, version, answer, k, s) ==
    [i \in 1..(k + 1) |->
        IF i <= k THEN ScriptCall(op, movie_id, model, version, answer, i, s)
        ELSE ScriptCall(op, movie_id, model, version, answer, 1, k * s)]

ScriptedCall(w) ==
    /\ calls[w].pc = "idle"
    /\ script # <<>>
    /\ LET a == Head(script)
       IN  IF a.op = "get_recommendations"
           THEN StartRecommendations(w, a.page, a.per_page, a.embedding_model,
                                     a.score_metric_version, a.answer)
           ELSE StartSimilar(w, a.movie_id, a.page, a.per_page, a.embedding_model,
                             a.score_metric_version)
    /\ script' = Tail(script)
    /\ UNCHANGED <<movies, embeddings, transcript, scoring, requests, offline>>

\* the client takes the outcome of the call; it gives up at the first error
Collect(w) ==
    /\ calls[w].pc = "done"
    /\ transcript' = Append(transcript,
           [call |-> ScriptCall(calls[w].op, calls[w].movie_id, calls[w].embedding_model,
                                calls[w].score_metric_version, calls[w].answer,
                                calls[w].page, calls[w].per_page),
            outcome |-> Val(calls[w].outcome)])
    /\ script' = IF Val(calls[w].outcome).kind = "error" THEN <<>> ELSE script
    /\ calls' = [calls EXCEPT ![w] = IdleCall]
    /\ sessions' = WithoutSessionsOf(w)
    /\ UNCHANGED <<movies, embeddings, scoring, requests, offline>>

(***************************************************************************)
(* The corpora.  A movie has one of the profiles below; movie ids mean     *)
(* nothing to the code but identity, so corpora are enumerated up to a     *)
(* renaming of the ids (profiles in non-decreasing order).                 *)
(***************************************************************************)
Profiles ==
    << [emb |-> "none",     dir |-> DirA, va |-> Some(70), vc |-> Some(99)],
       [emb |-> "full",     dir |-> DirA, va |-> Some(50), vc |-> Some(9)],
       [emb |-> "full",     dir |-> DirB, va |-> Some(90), vc |-> Some(999)],
       [emb |-> "ada_only", dir |-> DirA, va |-> Some(50), vc |-> Some(9)],
       [emb |-> "full",     dir |-> DirA, va |-> Null,     vc |-> Null] >>

ProfileChoices ==
    {f \in [MovieIds -> DOMAIN Profiles] : \A i, j \in MovieIds : i < j => f[i] <= f[j]}

MoviesOf(f) == [id \in MovieIds |-> Movie(id, Profiles[f[id]].va, Profiles[f[id]].vc)]

EmbeddingsOf(f) ==
    [id \in {i \in MovieIds : Profiles[f[i]].emb # "none"} |->
        LET pr == Profiles[f[id]]
            v(col) == Some(Vec(ColumnDim(col), pr.dir[1], pr.dir[2]))
        IN  MovieEmbeddingOpenAI(id,
                v("embedding_ada_002"),
                IF pr.emb = "full" THEN v("embedding_3_small") ELSE Null,
                IF pr.emb = "full" THEN v("embedding_3_large") ELSE Null)]

InitCorpus ==
    \E f \in ProfileChoices :
        /\ movies = MoviesOf(f)
        /\ embeddings = EmbeddingsOf(f)

Init ==
    /\ InitCorpus
    /\ sessions = <<>>
    /\ calls = [w \in {"w1"} |-> IdleCall]
    /\ script = <<>>
    /\ transcript = <<>>
    /\ scoring = NoScoring
    /\ requests = [w \in DOMAIN calls |-> IdleRequest]
    /\ InitOffline

Next ==
    \/ \E w \in Workers : CallGetRecommendations(w)
    \/ \E w \in Workers : CallGetMovieById(w)
    \/ \E w \in Workers : CallGetSimilarMovies(w)
    \/ \E w \in Workers : OpenSession(w)
    \/ \E w \in Workers : ExecuteLookup(w)
    \/ \E w \in Workers : ExecuteTarget(w)
    \/ \E w \in Workers : ExecuteRanking(w)
    \/ \E w \in Workers : Rollback(w)
    \/ \E w \in Workers : Close(w)
    \/ \E w \in Workers : Return(w)

Spec == Init /\ [][Next]_vars

InitPages ==
    /\ InitCorpus
    /\ sessions = <<>>
    /\ calls = [w \in {"w1"} |-> IdleCall]
    /\ transcript = <<>>
    /\ scoring = NoScoring
    /\ requests = [w \in DOMAIN calls |-> IdleRequest]
    /\ InitOffline
    /\ \E model \in EmbeddingModel, version \in ScoreMetricVersion,
          k \in 1..MaxPages, s \in 1..MaxPerPage :
            \/ script = PageScript("get_recommendations", 0, model, version, "vector", k, s)
            \/ \E movie_id \in MovieIds :
                 script = PageScript("get_similar_movies", movie_id, model, version, "-", k, s)

NextPages ==
    \/ \E w \in Workers : ScriptedCall(w)
    \/ \E w \in Workers : Collect(w)
    \/ \E w \in Workers : OpenSession(w)
    \/ \E w \in Workers : ExecuteTarget(w)
    \/ \E w \in Workers : ExecuteRanking(w)
    \/ \E w \in Workers : Rollback(w)
    \/ \E w \in Workers : Close(w)

SpecPages == InitPages /\ [][NextPages]_vars

(***************************************************************************)
(* The score functions by themselves: a scoring expression is built for a  *)
(* version, a model and a query vector (lines 109 and 167), and the store  *)
(* computes it for the joined rows of two candidates whose vectors and     *)
(* votes are drawn from the values below.  Directions lists vectors at     *)
(* cosine distance 0, 0.05, 0.1, 0.3 and 1 from DirA; the greatest         *)
(* vote_count is the last one the INTEGER column holds to which 1 can be   *)
(* added.                                                                  *)
(***************************************************************************)
Directions == << <<3, 4>>, <<73, 51>>, <<64, 33>>, <<128, 17>>, <<-4, 3>> >>

VoteAverages == {0, 50, 100}

VoteCounts == {0, 9, 1000, 2147483646}

Popularities ==
    {[va |-> Some(a), vc |-> Some(c)] : a \in VoteAverages, c \in VoteCounts}
        \cup {[va |-> Null, vc |-> Null]}

ComparedIds == 1..2

\* an embedding row with a vector of the same direction in every column
FullEmbedding(id, dir) ==
    MovieEmbeddingOpenAI(id,
        Some(Vec(ColumnDim("embedding_ada_002"), dir[1], dir[2])),
        Some(Vec(ColumnDim("embedding_3_small"), dir[1], dir[2])),
        Some(Vec(ColumnDim("embedding_3_large"), dir[1], dir[2])))

InitScore ==
    /\ \E dir \in [ComparedIds -> DOMAIN Directions], pop \in [ComparedIds -> Popularities] :
          /\ movies = [id \in ComparedIds |-> Movie(id, pop[id].va, pop[id].vc)]
          /\ embeddings = [id \in ComparedIds |-> FullEmbedding(id, Directions[dir[id]])]
    /\ sessions = <<>>
    /\ calls = [w \in {"w1"} |-> IdleCall]
    /\ script = <<>>
    /\ transcript = <<>>
    /\ scoring = NoScoring
    /\ requests = [w \in DOMAIN calls |-> IdleRequest]
    /\ InitOffline

\* score_metric_version.score_function(embedding, embedding_model)
BuildScoreMetric ==
    /\ scoring.pc = "idle"
    /\ \E version \in ScoreMetricVersion, model \in EmbeddingModel :
          scoring' = [NoScoring EXCEPT !.pc = "built",
                                      !.version = version,
                                      !.embedding_model = model,
                                      !.embedding = Some(AnswerVector("vector", ModelName(model)))]
    /\ UNCHANGED <<movies, embeddings, sessions, calls, script, transcript, requests, offline>>

\* the store computes the expression for every joined row
EvaluateScore ==
    /\ scoring.pc = "built"
    /\ scoring' = [scoring EXCEPT
          !.pc = "scored",
          !.scores = [id \in JoinedIds(movies, embeddings) |->
                         ScoreFunction(scoring.version, Val(scoring.embedding),
                                       scoring.embedding_model, movies[id], embeddings[id])]]
    /\ UNCHANGED <<movies, embeddings, sessions, calls, script, transcript, requests, offline>>

NextScore ==
    \/ BuildScoreMetric
    \/ EvaluateScore

SpecScore == InitScore /\ [][NextScore]_vars

(***************************************************************************)
(* The corpus of three movies A, B, C with votes (9, 1000), (5, 2) and     *)
(* (7, 50), at cosine distance 0.1, 0.05 and 0.3 from the query vector,    *)
(* and callers that ask get_recommendations for pages that hold the whole  *)
(* corpus.                                                                 *)
(***************************************************************************)
ScenarioCorpus ==
    << [name |-> "A", va |-> 90, vc |-> 1000, dir |-> Directions[3]],
       [name |-> "B", va |-> 50, vc |-> 2,    dir |-> Directions[2]],
       [name |-> "C", va |-> 70, vc |-> 50,   dir |-> Directions[4]] >>

InitScenario ==
    /\ movies = [id \in DOMAIN ScenarioCorpus |->
                    Movie(id, Some(ScenarioCorpus[id].va), Some(ScenarioCorpus[id].vc))]
    /\ embeddings = [id \in DOMAIN ScenarioCorpus |->
                        FullEmbedding(id, ScenarioCorpus[id].dir)]
    /\ sessions = <<>>
    /\ calls = [w \in {"w1"} |-> IdleCall]
    /\ script = <<>>
    /\ transcript = <<>>
    /\ scoring = NoScoring
    /\ requests = [w \in DOMAIN calls |-> IdleRequest]
    /\ InitOffline

CallGetRecommendationsForAll(w) ==
    /\ CanCall(w)
    /\ \E page \in 1..MaxPage, model \in EmbeddingModel,
          version \in ScoreMetricVersion, answer \in EmbedderAnswers :
            StartRecommendations(w, page, Cardinality(DOMAIN movies), model, version, answer)
    /\ UNCHANGED <<movies, embeddings, script, transcript, scoring, requests, offline>>

NextScenario ==
    \/ \E w \in Workers : CallGetRecommendationsForAll(w)
    \/ \E w \in Workers : OpenSession(w)
    \/ \E w \in Workers : ExecuteRanking(w)
    \/ \E w \in Workers : Rollback(w)
    \/ \E w \in Workers : Close(w)
    \/ \E w \in Workers : Return(w)

SpecScenario == InitScenario /\ [][NextScenario]_vars

(***************************************************************************)
(* Two callers at once (the threads of a pool, as in                       *)
(* mlflow_experiments/exp_openai.py), their steps interleaved in any       *)
(* order, over one corpus: a movie without embedding row, movies with all  *)
(* their vectors, the last of another direction and other votes.           *)
(***************************************************************************)
ConcurrentCorpus ==
    [id \in MovieIds |-> IF id = 1 THEN 1 ELSE IF id = MaxMovies THEN 3 ELSE 2]

InitConcurrent ==
    /\ movies = MoviesOf(ConcurrentCorpus)
    /\ embeddings = EmbeddingsOf(ConcurrentCorpus)
    /\ sessions = <<>>
    /\ calls = [w \in {"w1", "w2"} |-> IdleCall]
    /\ script = <<>>
    /\ transcript = <<>>
    /\ scoring = NoScoring
    /\ requests = [w \in DOMAIN calls |-> IdleRequest]
    /\ InitOffline

NextConcurrent ==
    \/ \E w \in Workers : CallGetRecommendationsByDefault(w)
    \/ \E w \in Workers : CallGetMovieById(w)
    \/ \E w \in Workers : CallGetSimilarMoviesByDefault(w)
    \/ \E w \in Workers : OpenSession(w)
    \/ \E w \in Workers : ExecuteLookup(w)
    \/ \E w \in Workers : ExecuteTarget(w)
    \/ \E w \in Workers : ExecuteRanking(w)
    \/ \E w \in Workers : Rollback(w)
    \/ \E w \in Workers : Close(w)
    \/ \E w \in Workers : Return(w)

SpecConcurrent == InitConcurrent /\ [][NextConcurrent]_vars

(***************************************************************************)
(* webapp/main.py: the three routes that call the core.  A handler calls   *)
(* the core functions one after the other with per_page = 8 and the        *)
(* module's EMBEDDING_MODEL and SCORE_METRIC_VERSION (LARGE_3 and V3, as   *)
(* the defaults above); an exception of the core that the handler does not *)
(* catch is answered by the framework with status 500.                     *)
(***************************************************************************)
WebPerPage == 8

HttpNotFound == [status |-> 404, movie |-> Null, movies |-> <<>>]

HttpServerError == [status |-> 500, movie |-> Null, movies |-> <<>>]

\* templates.TemplateResponse(...): the page with the values given to it
TemplateResponse(movie, rows) == [status |-> 200, movie |-> movie, movies |-> rows]

\* movies_data: one dictionary per movie
MoviesData(rows) ==
    [i \in DOMAIN rows |->
        [movie_id |-> rows[i].movie_id,
         vote_average |-> rows[i].vote_average,
         vote_count |-> rows[i].vote_count]]

JSONResponse(movies_data) == [status |-> 200, movie |-> Null, movies |-> movies_data]

\* the handler has the outcome of the core call it waited for
TakeOutcome(w) ==
    /\ calls[w].pc = "done"
    /\ calls' = [calls EXCEPT ![w] = IdleCall]
    /\ sessions' = WithoutSessionsOf(w)

\* POST /: recommend, up to the call of get_recommendations
ReceiveRecommend(w) ==
    /\ requests[w].pc = "idle" /\ CanCall(w)
    /\ \E answer \in EmbedderAnswers :
          StartRecommendations(w, 1, WebPerPage, EMBEDDING_MODEL, SCORE_METRIC_VERSION, answer)
    /\ requests' = [requests EXCEPT ![w] =
          [IdleRequest EXCEPT !.route = "recommend", !.pc = "recommendations"]]
    /\ UNCHANGED <<movies, embeddings, script, transcript, scoring, offline>>

\* recommend, line 38
RecommendRespond(w) ==
    /\ requests[w].route = "recommend" /\ requests[w].pc = "recommendations"
    /\ TakeOutcome(w)
    /\ LET outcome == Val(calls[w].outcome)
       IN  requests' = [requests EXCEPT ![w].pc = "responded",
                                        ![w].escaped =
                 IF outcome.kind = "error" THEN Some(outcome.error) ELSE Null,
                                        ![w].response =
                 Some(IF outcome.kind = "error" THEN HttpServerError
                      ELSE TemplateResponse(Null, outcome.rows))]
    /\ UNCHANGED <<movies, embeddings, script, transcript, scoring, offline>>

\* GET /movie/{movie_id}: movie_detail, up to the call of get_movie_by_id
ReceiveMovieDetail(w) ==
    /\ requests[w].pc = "idle" /\ CanCall(w)
    /\ \E movie_id \in MovieIds \cup {UnknownId} :
          /\ StartMovieById(w, movie_id)
          /\ requests' = [requests EXCEPT ![w] =
                [IdleRequest EXCEPT !.route = "movie_detail", !.pc = "movie",
                                    !.movie_id = movie_id]]
    /\ UNCHANGED <<movies, embeddings, script, transcript, scoring, offline>>

\* variant: the test of the movie left out
MovieDetailLookedUpUnchecked(w) ==
    /\ requests[w].route = "movie_detail" /\ requests[w].pc = "movie"
    /\ TakeOutcome(w)
    /\ LET outcome == Val(calls[w].outcome)
       IN  requests' = [requests EXCEPT ![w] =
              IF outcome.kind = "error"
              THEN [@ EXCEPT !.lookup = Some(outcome), !.pc = "responded",
                             !.escaped = Some(outcome.error),
                             !.response = Some(HttpServerError)]
              ELSE [@ EXCEPT !.lookup = Some(outcome), !.pc = "similar"]]
    /\ UNCHANGED <<movies, embeddings, script, transcript, scoring, offline>>

\* movie_detail, lines 44-46: if not movie: raise HTTPException(404)
MovieDetailLookedUp(w) ==
    /\ requests[w].route = "movie_detail" /\ requests[w].pc = "movie"
    /\ TakeOutcome(w)
    /\ LET outcome == Val(calls[w].outcome)
       IN  requests' = [requests EXCEPT ![w] =
              CASE outcome.kind = "error" ->
                     [@ EXCEPT !.lookup = Some(outcome), !.pc = "responded",
                               !.escaped = Some(outcome.error),
                               !.response = Some(HttpServerError)]
                [] outcome.kind = "none" ->
                     [@ EXCEPT !.lookup = Some(outcome), !.pc = "responded",
                               !.response = Some(HttpNotFound)]
                [] OTHER ->
                     [@ EXCEPT !.lookup = Some(outcome), !.pc = "similar"]]
    /\ UNCHANGED <<movies, embeddings, script, transcript, scoring, offline>>

\* movie_detail, lines 49-55: the call of get_similar_movies
MovieDetailCallSimilar(w) ==
    /\ requests[w].route = "movie_detail" /\ requests[w].pc = "similar"
    /\ CanCall(w)
    /\ StartSimilar(w, requests[w].movie_id, 1, WebPerPage,
                    EMBEDDING_MODEL, SCORE_METRIC_VERSION)
    /\ requests' = [requests EXCEPT ![w].pc = "similar_movies",
                                    ![w].similar_calls = @ + 1]
    /\ UNCHANGED <<movies, embeddings, script, transcript, scoring, offline>>

\* movie_detail, lines 57-60
MovieDetailRespond(w) ==
    /\ requests[w].route = "movie_detail" /\ requests[w].pc = "similar_movies"
    /\ TakeOutcome(w)
    /\ LET outcome == Val(calls[w].outcome)
           movie == Val(requests[w].lookup)
       IN  requests' = [requests EXCEPT ![w].pc = "responded",
                                        ![w].escaped =
                 IF outcome.kind = "error" THEN Some(outcome.error) ELSE Null,
                                        ![w].response =
                 Some(IF outcome.kind = "error" THEN HttpServerError
                      ELSE TemplateResponse(IF movie.kind = "movie" THEN Some(movie.rows[1])
                                            ELSE Null,
                                            outcome.rows))]
    /\ UNCHANGED <<movies, embeddings, script, transcript, scoring, offline>>

\* GET /api/recommendations: load_more_recommendations, up to the call of
\* get_recommendations
ReceiveLoadMore(w) ==
    /\ requests[w].pc = "idle" /\ CanCall(w)
    /\ \E page \in 1..MaxPage, answer \in EmbedderAnswers :
          /\ StartRecommendations(w, page, WebPerPage, EMBEDDING_MODEL,
                                  SCORE_METRIC_VERSION, answer)
          /\ requests' = [requests EXCEPT ![w] =
                [IdleRequest EXCEPT !.route = "load_more_recommendations",
                                    !.pc = "recommendations", !.page = page]]
    /\ UNCHANGED <<movies, embeddings, script, transcript, scoring, offline>>

\* load_more_recommendations, lines 74-87
LoadMoreRespond(w) ==
    /\ requests[w].route = "load_more_recommendations"
    /\ requests[w].pc = "recommendations"
    /\ TakeOutcome(w)
    /\ LET outcome == Val(calls[w].outcome)
       IN  requests' = [requests EXCEPT ![w].pc = "responded",
                                        ![w].escaped =
                 IF outcome.kind = "error" THEN Some(outcome.error) ELSE Null,
                                        ![w].response =
                 Some(IF outcome.kind = "error" THEN HttpServerError
                      ELSE JSONResponse(MoviesData(outcome.rows)))]
    /\ UNCHANGED <<movies, embeddings, script, transcript, scoring, offline>>

\* the response is sent; the worker takes the next request
SendResponse(w) ==
    /\ requests[w].pc = "responded"
    /\ requests' = [requests EXCEPT ![w] = IdleRequest]
    /\ UNCHANGED <<movies, embeddings, sessions, calls, script, transcript, scoring, offline>>

NextWeb ==
    \/ \E w \in Workers : ReceiveRecommend(w)
    \/ \E w \in Workers : RecommendRespond(w)
    \/ \E w \in Workers : ReceiveMovieDetail(w)
    \/ \E w \in Workers : MovieDetailLookedUp(w)
    \/ \E w \in Workers : MovieDetailCallSimilar(w)
    \/ \E w \in Workers : MovieDetailRespond(w)
    \/ \E w \in Workers : ReceiveLoadMore(w)
    \/ \E w \in Workers : LoadMoreRespond(w)
    \/ \E w \in Workers : SendResponse(w)
    \/ \E w \in Workers : OpenSession(w)
    \/ \E w \in Workers : ExecuteLookup(w)
    \/ \E w \in Workers : ExecuteTarget(w)
    \/ \E w \in Workers : ExecuteRanking(w)
    \/ \E w \in Workers : Rollback(w)
    \/ \E w \in Workers : Close(w)

SpecWeb == Init /\ [][NextWeb]_vars

\* callers that pass arguments of any kind
NextConfig ==
    \/ \E w \in Workers : CallGetRecommendationsAnyConfig(w)
    \/ \E w \in Workers : CallGetSimilarMoviesAnyConfig(w)
    \/ \E w \in Workers : OpenSession(w)
    \/ \E w \in Workers : ExecuteTarget(w)
    \/ \E w \in Workers : ExecuteRanking(w)
    \/ \E w \in Workers : Rollback(w)
    \/ \E w \in Workers : Close(w)
    \/ \E w \in Workers : Return(w)

SpecConfig == Init /\ [][NextConfig]_vars

(***************************************************************************)
(* tests/test1.py: recommend_movies embeds the query with the model whose  *)
(* name it is given, and ranks by a score built on the L2 distance to the  *)
(* column embedding_ada_002, whatever that name is; main() makes the       *)
(* session, calls it and closes the session.  main() itself passes no      *)
(* embedding_model; here the argument takes every model name.              *)
(***************************************************************************)
ModelNames == {ModelName(m) : m \in EmbeddingModel}

\* db/2-generate_embeddings.py: the model whose vectors a column holds
ColumnFilledBy(col) ==
    CASE col = "embedding_ada_002" -> "text-embedding-ada-002"
      [] col = "embedding_3_small" -> "text-embedding-3-small"
      [] col = "embedding_3_large" -> "text-embedding-3-large"

\* pgvector's l2_distance (operator <->) in 1/1000, for vectors of length 1
\* as the provider returns them: the square of the distance is twice the
\* cosine distance
L2Distance(a, b) == ISqrt(2000 * CosineDistance(a, b))

\* line 25: the column of the distance expression
TestColumn == "embedding_ada_002"

\* lines 25-38: combined_score for one joined row
CombinedScore(query_embedding, mrow, erow) ==
    LET stored == erow[TestColumn]
    IN  IF IsNull(stored) \/ IsNull(mrow.vote_average) \/ IsNull(mrow.vote_count)
        THEN Null
        ELSE Some(700 * (1000 - L2Distance(Val(stored), query_embedding))
                  + 200 * (Val(mrow.vote_average) * 10)
                  + 100 * Log10Milli(1 + Val(mrow.vote_count)))

\* lines 41-51: the lists the statement may return
RecommendMoviesResults(mv, emb, query_embedding, top_k) ==
    LET cand == JoinedIds(mv, emb)
        score == [id \in cand |-> CombinedScore(query_embedding, mv[id], emb[id])]
    IN  {[i \in DOMAIN page |-> mv[page[i]]] :
            page \in {Slice(f, 0, top_k) : f \in Sorted(cand, score)}}

\* a stored vector of the column has another length than the query vector
TestDimensionMismatch(emb, query_embedding) ==
    \E id \in DOMAIN emb :
        /\ ~IsNull(emb[id][TestColumn])
        /\ Val(emb[id][TestColumn]).dim # query_embedding.dim

\* main(), lines 60-67: the session is made and recommend_movies is called
TestMain ==
    /\ test.pc = "idle"
    /\ \A w \in Workers : CanCall(w) /\ requests[w].pc = "idle"
    /\ \E embedding_model \in ModelNames, top_k \in 1..MaxPerPage,
          answer \in EmbedderAnswers :
          test' = [NoTest EXCEPT !.pc = "embed",
                                 !.embedding_model = embedding_model,
                                 !.top_k = top_k, !.answer = answer,
                                 !.session = Some(SessionLocal("main"))]
    /\ UNCHANGED <<movies, embeddings, sessions, calls, script, transcript,
                   scoring, requests, limiter, generation, removal, posters>>

\* recommend_movies, lines 16-21
RecommendMoviesEmbed ==
    /\ test.pc = "embed"
    /\ test' =
          CASE test.answer = "api_error" ->
                 [test EXCEPT !.pc = "except", !.embedded_with = Some(test.embedding_model),
                              !.pending = Some(ErrorOutcome("APIError"))]
            [] test.answer = "empty_data" ->
                 [test EXCEPT !.pc = "except", !.embedded_with = Some(test.embedding_model),
                              !.pending = Some(ErrorOutcome("IndexError"))]
            [] OTHER ->
                 [test EXCEPT !.pc = "execute", !.embedded_with = Some(test.embedding_model),
                              !.query_embedding =
                                  Some(AnswerVector(test.answer, test.embedding_model))]
    /\ UNCHANGED <<movies, embeddings, sessions, calls, script, transcript,
                   scoring, requests, limiter, generation, removal, posters>>

\* recommend_movies, lines 25-54: the statement is built and executed
RecommendMoviesExecute ==
    /\ test.pc = "execute"
    /\ LET q == Val(test.query_embedding)
           stmt == [kind |-> "select"]
       IN  \/ /\ ~TestDimensionMismatch(embeddings, q)
              /\ \E results \in RecommendMoviesResults(movies, embeddings, q, test.top_k) :
                    test' = [test EXCEPT !.pc = "finally",
                                         !.column = Some(TestColumn),
                                         !.session = Some(SessionExecute(Val(@), stmt, TRUE)),
                                         !.pending = Some(ListOutcome(results))]
           \/ test' = [test EXCEPT !.pc = "except",
                                   !.column = Some(TestColumn),
                                   !.session = Some(SessionExecute(Val(@), stmt, FALSE)),
                                   !.pending = Some(ErrorOutcome("StoreError"))]
    /\ UNCHANGED <<movies, embeddings, sessions, calls, script, transcript,
                   scoring, requests, limiter, generation, removal, posters>>

\* main(), lines 71-72: the error is printed
TestExcept ==
    /\ test.pc = "except"
    /\ test' = [test EXCEPT !.pc = "finally"]
    /\ UNCHANGED <<movies, embeddings, sessions, calls, script, transcript,
                   scoring, requests, limiter, generation, removal, posters>>

\* main(), lines 73-74
TestClose ==
    /\ test.pc = "finally"
    /\ test' = [test EXCEPT !.pc = "done",
                            !.session = Some(SessionClose(Val(@))),
                            !.outcome = test.pending, !.pending = Null]
    /\ UNCHANGED <<movies, embeddings, sessions, calls, script, transcript,
                   scoring, requests, limiter, generation, removal, posters>>

\* the test process has ended
TestExit ==
    /\ test.pc = "done"
    /\ test' = NoTest
    /\ UNCHANGED <<movies, embeddings, sessions, calls, script, transcript,
                   scoring, requests, limiter, generation, removal, posters>>

\* the test is run on its own, between calls of the core
CallGetRecommendationsBetweenTests(w) ==
    /\ test.pc = "idle"
    /\ CallGetRecommendations(w)

NextTest ==
    \/ TestMain
    \/ RecommendMoviesEmbed
    \/ RecommendMoviesExecute
    \/ TestExcept
    \/ TestClose
    \/ TestExit
    \/ \E w \in Workers : CallGetRecommendationsBetweenTests(w)
    \/ \E w \in Workers : OpenSession(w)
    \/ \E w \in Workers : ExecuteRanking(w)
    \/ \E w \in Workers : Rollback(w)
    \/ \E w \in Workers : Close(w)
    \/ \E w \in Workers : Return(w)

SpecTest == Init /\ [][NextTest]_vars

(***************************************************************************)
(* A client that asks for the second page of the movies similar to one     *)
(* movie under each ScoreMetricVersion in turn, with the same page size    *)
(* and embedding model.                                                    *)
(***************************************************************************)
VersionOrder == <<"V1", "V2", "V3">>

VersionScript(movie_id, model, s) ==
    [i \in DOMAIN VersionOrder |->
        ScriptCall("get_similar_movies", movie_id, model, VersionOrder[i], "-", 2, s)]

InitVersions ==
    /\ InitCorpus
    /\ sessions = <<>>
    /\ calls = [w \in {"w1"} |-> IdleCall]
    /\ transcript = <<>>
    /\ scoring = NoScoring
    /\ requests = [w \in DOMAIN calls |-> IdleRequest]
    /\ InitOffline
    /\ \E movie_id \in MovieIds, model \in EmbeddingModel, s \in 1..MaxPerPage :
          script = VersionScript(movie_id, model, s)

SpecVersions == InitVersions /\ [][NextPages]_vars

(***************************************************************************)
(* db/2-update_movies_poster.py and data/3-update_movie_data.py (the same  *)
(* class in both): RateLimiter.  Time is in 1/10 s.  The coroutines run on *)
(* one event loop, so a coroutine is interrupted only at an await: the     *)
(* code of acquire() from time.time() to the append, or to the sleep, is   *)
(* one step.  asyncio.sleep(d) returns when at least d has passed.         *)
(* limiter.grants is the history of the timestamps acquire() recorded.     *)
(***************************************************************************)
\* line 24: 60 seconds
Window == 600

\* line 28: the small buffer of 0.1 seconds
Buffer == 1

\* the readings of the clock: every half minute, and a tenth after
TimePoints == {k * (Window \div 2) + e : k \in 0..MaxHalves, e \in {0, Buffer}}

Coroutines == DOMAIN limiter.co

IdleCoroutine == [pc |-> "idle", wake_at |-> 0, sleeps |-> 0]

\* line 24: the requests younger than a minute
Recent(reqs, now) == SelectSeq(reqs, LAMBDA req_time : now - req_time < Window)

\* lines 21-34 for coroutine c, from time.time() to the append, to the sleep
\* or to the IndexError of self.requests[0] on an empty list
AcquireBody(c) ==
    LET now == limiter.time
        kept == Recent(limiter.requests, now)
    IN  IF Len(kept) >= limiter.max_requests
        THEN IF kept = <<>>
             THEN limiter' = [limiter EXCEPT !.requests = kept,
                                             !.co[c].pc = "raised"]
             ELSE limiter' = [limiter EXCEPT !.requests = kept,
                                             !.co[c].pc = "sleeping",
                                             !.co[c].sleeps = @ + 1,
                                             !.co[c].wake_at =
                                                 now + (Window - (now - kept[1]) + Buffer)]
        ELSE limiter' = [limiter EXCEPT !.requests = Append(kept, now),
                                        !.grants = Append(@, now),
                                        !.co[c].pc = "returned"]

\* a coroutine calls rate_limiter.acquire()
Acquire(c) ==
    /\ limiter.co[c].pc = "idle"
    /\ AcquireBody(c)
    /\ UNCHANGED <<movies, embeddings, sessions, calls, script, transcript,
                   scoring, requests, test, generation, removal, posters>>

\* variant: after the sleep the request is recorded without a second look
WakeWithoutRecheck(c) ==
    /\ limiter.co[c].pc = "sleeping"
    /\ limiter.time >= limiter.co[c].wake_at
    /\ limiter' = [limiter EXCEPT !.requests = Append(Recent(@, limiter.time), limiter.time),
                                  !.grants = Append(@, limiter.time),
                                  !.co[c].pc = "returned"]
    /\ UNCHANGED <<movies, embeddings, sessions, calls, script, transcript,
                   scoring, requests, test, generation, removal, posters>>

\* lines 30-31: the sleep is over, acquire() is called again
Wake(c) ==
    /\ limiter.co[c].pc = "sleeping"
    /\ limiter.time >= limiter.co[c].wake_at
    /\ AcquireBody(c)
    /\ UNCHANGED <<movies, embeddings, sessions, calls, script, transcript,
                   scoring, requests, test, generation, removal, posters>>

\* time passes
Tick ==
    /\ \E t \in TimePoints : t > limiter.time /\ limiter' = [limiter EXCEPT !.time = t]
    /\ UNCHANGED <<movies, embeddings, sessions, calls, script, transcript,
                   scoring, requests, test, generation, removal, posters>>

\* the core and the web application are not in use, the tables are empty
InitCoreUnused ==
    /\ movies = <<>>
    /\ embeddings = <<>>
    /\ sessions = <<>>
    /\ calls = [w \in {"w1"} |-> IdleCall]
    /\ script = <<>>
    /\ transcript = <<>>
    /\ scoring = NoScoring
    /\ requests = [w \in DOMAIN calls |-> IdleRequest]

InitLimiter ==
    /\ InitCoreUnused
    /\ test = NoTest
    /\ generation = NoGeneration
    /\ removal = NoRemoval
    /\ posters = NoPosters
    /\ \E m \in 0..MaxRequests :
          limiter = [NoLimiter EXCEPT !.max_requests = m,
                                      !.co = [c \in 1..MaxCoroutines |-> IdleCoroutine]]

NextLimiter ==
    \/ \E c \in Coroutines : Acquire(c)
    \/ \E c \in Coroutines : Wake(c)
    \/ Tick

SpecLimiter == InitLimiter /\ [][NextLimiter]_vars

(***************************************************************************)
(* db/2-generate_embeddings.py.  generate_missing_embeddings submits one   *)
(* task per batch to a pool of max_workers threads and handles the futures *)
(* in the order they complete, in its own thread: the saves come one after *)
(* the other.  A task is generate_embeddings_for_batch: its three embedder *)
(* calls end, each with the data of every prompt ("ok"), with an exception *)
(* ("error") or with a data list one entry short ("short"); the task ends  *)
(* with the exception when a call raised, else with the three responses,   *)
(* kept as the lengths of their data lists.                                *)
(***************************************************************************)
Futures == {"ada_002", "3_small", "3_large"}

CallOutcomes == {"ok", "error", "short"}

\* the ids of s in ascending order
RECURSIVE Ascending(_)
Ascending(S) ==
    IF S = {} THEN <<>>
    ELSE LET least == CHOOSE x \in S : \A y \in S : x <= y
         IN  <<least>> \o Ascending(S \ {least})

\* lines 110-118: the movies no embedding row refers to
MoviesWithoutEmbeddings == Ascending(DOMAIN movies \ DOMAIN embeddings)

\* lines 130-132
Batches(list, batch_size) ==
    [b \in 1..((Len(list) + batch_size - 1) \div batch_size) |->
        SubSeq(list, (b - 1) * batch_size + 1, Min(Len(list), b * batch_size))]

\* commit: whether session.commit() was called for the batch, and how it ended
SubmittedTask == [status |-> "submitted", result |-> Null, commit |-> "none"]

\* what generate_embeddings_for_batch ends with, lines 56-64
BatchResult(batch, outcome) ==
    IF \E f \in Futures : outcome[f] = "error"
    THEN [kind |-> "error", data |-> [f \in Futures |-> 0]]
    ELSE [kind |-> "results",
          data |-> [f \in Futures |->
                       IF outcome[f] = "short" THEN Len(batch) - 1 ELSE Len(batch)]]

\* lines 77-86: the row of the movie at index j of the batch
NewEmbedding(movie_id) ==
    MovieEmbeddingOpenAI(movie_id,
        Some(Vec(ColumnDim("embedding_ada_002"), DirA[1], DirA[2])),
        Some(Vec(ColumnDim("embedding_3_small"), DirA[1], DirA[2])),
        Some(Vec(ColumnDim("embedding_3_large"), DirA[1], DirA[2])))

\* the table after the rows have been inserted
WithRows(emb, rows) ==
    [id \in DOMAIN emb \cup {rows[j].movie_id : j \in DOMAIN rows} |->
        IF \E j \in DOMAIN rows : rows[j].movie_id = id
        THEN rows[CHOOSE j \in DOMAIN rows : rows[j].movie_id = id]
        ELSE emb[id]]

GenerationFrame ==
    UNCHANGED <<movies, sessions, calls, script, transcript, scoring, requests,
                test, limiter, removal, posters>>

\* lines 101-139: the query, the batches and the submission of the tasks
GenerateMissingEmbeddings ==
    /\ generation.pc = "idle"
    /\ \E batch_size \in 1..MaxBatchSize, max_workers \in 1..MaxWorkers, ok \in BOOLEAN :
          LET batches == Batches(MoviesWithoutEmbeddings, batch_size)
          IN  generation' =
                 IF ~ok THEN [generation EXCEPT !.pc = "raised"]
                 ELSE IF batches = <<>> THEN [generation EXCEPT !.pc = "done"]
                 ELSE [generation EXCEPT !.pc = "running",
                                         !.max_workers = max_workers,
                                         !.batches = batches,
                                         !.tasks = [b \in DOMAIN batches |-> SubmittedTask]]
    /\ UNCHANGED embeddings
    /\ GenerationFrame

Running == {b \in DOMAIN generation.tasks : generation.tasks[b].status = "running"}

\* a thread of the pool takes the next task
StartBatchTask(b) ==
    /\ generation.pc = "running"
    /\ generation.tasks[b].status = "submitted"
    /\ \A a \in 1..(b - 1) : generation.tasks[a].status # "submitted"
    /\ Cardinality(Running) < generation.max_workers
    /\ generation' = [generation EXCEPT !.tasks[b].status = "running"]
    /\ UNCHANGED embeddings
    /\ GenerationFrame

\* generate_embeddings_for_batch, lines 47-64
GenerateEmbeddingsForBatch(b) ==
    /\ generation.pc = "running"
    /\ generation.tasks[b].status = "running"
    /\ \E outcome \in [Futures -> CallOutcomes] :
          generation' = [generation EXCEPT
              !.tasks[b] = [SubmittedTask EXCEPT
                               !.status = "completed",
                               !.result = Some(BatchResult(generation.batches[b], outcome))]]
    /\ UNCHANGED embeddings
    /\ GenerationFrame

\* variant: no try around future.result() and the save
TakeCompletedUnguarded(b) ==
    /\ generation.pc = "running" /\ generation.current = 0
    /\ generation.tasks[b].status = "completed"
    /\ generation' =
          IF Val(generation.tasks[b].result).kind = "error"
          THEN [generation EXCEPT !.tasks[b].status = "failed", !.pc = "raised"]
          ELSE [generation EXCEPT !.tasks[b].status = "saving", !.current = b]
    /\ UNCHANGED embeddings
    /\ GenerationFrame

\* lines 142-154: the next completed future; its exception is printed and
\* the loop goes on
TakeCompleted(b) ==
    /\ generation.pc = "running" /\ generation.current = 0
    /\ generation.tasks[b].status = "completed"
    /\ generation' =
          IF Val(generation.tasks[b].result).kind = "error"
          THEN [generation EXCEPT !.tasks[b].status = "failed"]
          ELSE [generation EXCEPT !.tasks[b].status = "saving", !.current = b]
    /\ UNCHANGED embeddings
    /\ GenerationFrame

\* variant: every row is committed as soon as it is added
SaveAddCommitting ==
    /\ generation.pc = "running" /\ generation.current # 0
    /\ generation.tasks[generation.current].status = "saving"
    /\ LET b == generation.current
           batch == generation.batches[b]
           data == Val(generation.tasks[b].result).data
           n == Min(Len(batch), Min(data["ada_002"], Min(data["3_small"], data["3_large"])))
           rows == [j \in 1..n |-> NewEmbedding(batch[j])]
       IN  /\ embeddings' = WithRows(embeddings, rows)
           /\ generation' =
                 IF n < Len(batch)
                 THEN [generation EXCEPT !.tasks[b].status = "failed", !.current = 0]
                 ELSE [generation EXCEPT !.tasks[b].status = "saved", !.current = 0]
    /\ GenerationFrame

\* save_embeddings_to_db, lines 72-91: the rows are added to the session; a
\* response without an entry for a movie ends the save (IndexError,
\* rollback, close) and the loop of the caller goes on
SaveAdd ==
    /\ generation.pc = "running" /\ generation.current # 0
    /\ generation.tasks[generation.current].status = "saving"
    /\ LET b == generation.current
           batch == generation.batches[b]
           data == Val(generation.tasks[b].result).data
       IN  generation' =
              IF \E f \in Futures : data[f] < Len(batch)
              THEN [generation EXCEPT !.tasks[b].status = "failed", !.current = 0]
              ELSE [generation EXCEPT !.tasks[b].status = "committing",
                                      !.pending = [j \in DOMAIN batch |-> NewEmbedding(batch[j])]]
    /\ UNCHANGED embeddings
    /\ GenerationFrame

\* lines 93-98: session.commit(), or its failure and the rollback
SaveCommit ==
    /\ generation.pc = "running" /\ generation.current # 0
    /\ generation.tasks[generation.current].status = "committing"
    /\ LET b == generation.current
       IN  \/ /\ embeddings' = WithRows(embeddings, generation.pending)
              /\ generation' = [generation EXCEPT !.tasks[b].status = "saved",
                                                  !.tasks[b].commit = "ok",
                                                  !.current = 0, !.pending = <<>>]
           \/ /\ UNCHANGED embeddings
              /\ generation' = [generation EXCEPT !.tasks[b].status = "failed",
                                                  !.tasks[b].commit = "failed",
                                                  !.current = 0, !.pending = <<>>]
    /\ GenerationFrame

\* line 156: every future has been handled
GenerationCompleted ==
    /\ generation.pc = "running"
    /\ \A b \in DOMAIN generation.tasks : generation.tasks[b].status \in {"saved", "failed"}
    /\ generation' = [generation EXCEPT !.pc = "done"]
    /\ UNCHANGED embeddings
    /\ GenerationFrame

\* the movies of the table, the first k of them with their embedding row
InitGeneration ==
    /\ movies = [id \in MovieIds |-> Movie(id, Some(70), Some(99))]
    /\ \E k \in 0..MaxMovies : embeddings = [id \in 1..k |-> NewEmbedding(id)]
    /\ sessions = <<>>
    /\ calls = [w \in {"w1"} |-> IdleCall]
    /\ script = <<>>
    /\ transcript = <<>>
    /\ scoring = NoScoring
    /\ requests = [w \in DOMAIN calls |-> IdleRequest]
    /\ InitOffline

NextGeneration ==
    \/ GenerateMissingEmbeddings
    \/ \E b \in DOMAIN generation.tasks : StartBatchTask(b)
    \/ \E b \in DOMAIN generation.tasks : GenerateEmbeddingsForBatch(b)
    \/ \E b \in DOMAIN generation.tasks : TakeCompleted(b)
    \/ SaveAdd
    \/ SaveCommit
    \/ GenerationCompleted

SpecGeneration == InitGeneration /\ [][NextGeneration]_vars

(***************************************************************************)
(* db/3-remove_movies_no_poster.py: main() calls                           *)
(* remove_movies_without_poster and remove_movies_without_backdrop with    *)
(* one session.  movies and embeddings are the committed tables; what the  *)
(* session's transaction has deleted and not yet committed is in           *)
(* removal.deleted_embeddings (the DELETE statements of line 32 / 66) and  *)
(* removal.deleted (session.delete, flushed by the commit).  Any statement *)
(* may fail: the exception leaves both functions, main() prints it and     *)
(* closes the session, which rolls the open transaction back.  Rows of     *)
(* movies have, beside the columns used so far, poster_path and            *)
(* backdrop_path.                                                          *)
(***************************************************************************)
MovieWithPaths(id, poster_path, backdrop_path) ==
    [movie_id |-> id, vote_average |-> Some(70), vote_count |-> Some(99),
     poster_path |-> poster_path, backdrop_path |-> backdrop_path]

\* poster_path and backdrop_path of a movie: a path, NULL or the empty string
PathProfiles ==
    << <<Some("/p.jpg"), Some("/b.jpg")>>,
       <<Null, Some("/b.jpg")>>,
       <<Some("/p.jpg"), Some("")>>,
       <<Some(""), Null>> >>

\* (column IS NULL) | (column == "")
Without(row, column) == IsNull(row[column]) \/ row[column] = Some("")

\* lines 13-19 / 47-53
MoviesLacking(column) == Ascending({id \in DOMAIN movies : Without(movies[id], column)})

RemovalFrame ==
    UNCHANGED <<sessions, calls, script, transcript, scoring, requests,
                test, limiter, generation, posters>>

\* main(), lines 78-81
RemovalMain ==
    /\ removal.pc = "idle"
    /\ \E batch_size \in 1..MaxBatchSize :
          removal' = [NoRemoval EXCEPT !.pc = "query", !.batch_size = batch_size]
    /\ UNCHANGED <<movies, embeddings>>
    /\ RemovalFrame

\* the function that follows the one for column, or the end of main()
AfterColumn(r) ==
    IF r.column = "poster_path"
    THEN [r EXCEPT !.pc = "query", !.column = "backdrop_path", !.found = <<>>, !.i = 0]
    ELSE [r EXCEPT !.pc = "done", !.found = <<>>, !.i = 0]

\* lines 13-25 / 47-59: the query; nothing found: return
FindMoviesWithout ==
    /\ removal.pc = "query"
    /\ \/ LET found == MoviesLacking(removal.column)
          IN  removal' = IF found = <<>> THEN AfterColumn(removal)
                         ELSE [removal EXCEPT !.pc = "batch", !.found = found, !.i = 0]
       \/ removal' = [removal EXCEPT !.pc = "error"]
    /\ UNCHANGED <<movies, embeddings>>
    /\ RemovalFrame

\* batch = found[i : i + batch_size]
RemovalBatch(r) ==
    {r.found[j] : j \in (r.i + 1)..Min(Len(r.found), r.i + r.batch_size)}

\* variant: the embedding rows of the movies are left alone
DeleteBatchKeepingEmbeddings ==
    /\ removal.pc = "batch"
    /\ \/ removal' = [removal EXCEPT !.pc = "commit", !.deleted = RemovalBatch(removal)]
       \/ removal' = [removal EXCEPT !.pc = "error"]
    /\ UNCHANGED <<movies, embeddings>>
    /\ RemovalFrame

\* lines 30-35 / 64-69: for every movie of the batch the DELETE of its
\* embedding rows and session.delete(movie)
DeleteBatch ==
    /\ removal.pc = "batch"
    /\ \/ removal' = [removal EXCEPT !.pc = "commit",
                                     !.deleted_embeddings =
                                         RemovalBatch(removal) \cap DOMAIN embeddings,
                                     !.deleted = RemovalBatch(removal)]
       \/ removal' = [removal EXCEPT !.pc = "error"]
    /\ UNCHANGED <<movies, embeddings>>
    /\ RemovalFrame

\* line 37 / 71: session.commit(), then the next batch or the return
CommitBatch ==
    /\ removal.pc = "commit"
    /\ \/ /\ movies' = [id \in DOMAIN movies \ removal.deleted |-> movies[id]]
          /\ embeddings' = [id \in DOMAIN embeddings \ removal.deleted_embeddings |->
                               embeddings[id]]
          /\ LET next == [removal EXCEPT !.i = @ + removal.batch_size,
                                         !.deleted = {}, !.deleted_embeddings = {}]
             IN  removal' = IF next.i >= Len(next.found) THEN AfterColumn(next)
                            ELSE [next EXCEPT !.pc = "batch"]
       \/ /\ removal' = [removal EXCEPT !.pc = "error"]
          /\ UNCHANGED <<movies, embeddings>>
    /\ RemovalFrame

\* main(), lines 83-86: the exception is printed, session.close() rolls back
RemovalFailed ==
    /\ removal.pc = "error"
    /\ removal' = [removal EXCEPT !.pc = "stopped", !.deleted = {},
                                  !.deleted_embeddings = {}]
    /\ UNCHANGED <<movies, embeddings>>
    /\ RemovalFrame

\* the tables: every movie with one of the profiles, some with their
\* embedding row (the foreign key lets no other row exist)
InitRemoval ==
    /\ \E f \in [MovieIds -> DOMAIN PathProfiles] :
          movies = [id \in MovieIds |->
                       MovieWithPaths(id, PathProfiles[f[id]][1], PathProfiles[f[id]][2])]
    /\ \E S \in SUBSET MovieIds : embeddings = [id \in S |-> NewEmbedding(id)]
    /\ sessions = <<>>
    /\ calls = [w \in {"w1"} |-> IdleCall]
    /\ script = <<>>
    /\ transcript = <<>>
    /\ scoring = NoScoring
    /\ requests = [w \in DOMAIN calls |-> IdleRequest]
    /\ InitOffline

NextRemoval ==
    \/ RemovalMain
    \/ FindMoviesWithout
    \/ DeleteBatch
    \/ CommitBatch
    \/ RemovalFailed

SpecRemoval == InitRemoval /\ [][NextRemoval]_vars

(***************************************************************************)
(* db/2-update_movies_poster.py: update_movie_poster_data_async.  The      *)
(* movies whose poster_path IS NULL are fetched batch by batch: one task   *)
(* per movie (fetch_movie_data), gathered, then the paths of the answers   *)
(* are assigned and the batch is committed.  A task runs without           *)
(* interruption from its start to the HTTP request (the semaphore and the  *)
(* rate limiter do not suspend it while they have room) and ends when the  *)
(* answer is there.  posters.dirty holds the assignments the session has   *)
(* not committed; posters.before is the table as main() found it and       *)
(* posters.fetched what each movie's fetch yielded.  The code's batch_size *)
(* is 50; the model takes batch sizes that split its few movies.           *)
(***************************************************************************)
\* line 83
MaxConcurrentRequests == 10

\* line 84
PosterRequestsPerMinute == 10000

\* what the JSON of an answer holds under "poster_path" or "backdrop_path":
\* nothing or null, the empty string, a path
JsonPaths == {Null, Some(""), Some("/new.jpg")}

\* what a fetch ends with: an answer that is a JSON object, an answer that
\* is another JSON value (a list), aiohttp.ClientError (raise_for_status
\* included), any other exception (the timeout, a body that is no JSON)
FetchOutcomes ==
    [kind : {"data"}, poster_path : JsonPaths, backdrop_path : {Null, Some("/new.jpg")}]
    \cup {[kind |-> k, poster_path |-> Null, backdrop_path |-> Null] :
             k \in {"list", "ClientError", "Exception"}}

CreatedTask == [pc |-> "created", movie_data |-> Null]

PosterFrame ==
    UNCHANGED <<embeddings, sessions, calls, script, transcript, scoring, requests,
                test, generation, removal>>

\* main(), lines 135-139
PosterMain ==
    /\ posters.pc = "idle"
    /\ \E batch_size \in 1..MaxBatchSize :
          posters' = [NoPosters EXCEPT !.pc = "query", !.batch_size = batch_size,
                                       !.before = movies,
                                       !.fetched = [id \in DOMAIN movies |-> "not fetched"]]
    /\ UNCHANGED <<movies, limiter>>
    /\ PosterFrame

\* lines 68-88: the query, the API key, the semaphore and the rate limiter
FindMoviesWithoutPoster ==
    /\ posters.pc = "query"
    /\ \/ \E tmdb_api_key \in BOOLEAN :
            LET found == Ascending({id \in DOMAIN movies : IsNull(movies[id].poster_path)})
            IN  /\ posters' = IF found = <<>> \/ ~tmdb_api_key
                              THEN [posters EXCEPT !.pc = "done"]
                              ELSE [posters EXCEPT !.pc = "batch", !.found = found, !.i = 0]
                /\ limiter' = [NoLimiter EXCEPT !.max_requests = PosterRequestsPerMinute]
       \/ /\ posters' = [posters EXCEPT !.pc = "error"]
          /\ UNCHANGED limiter
    /\ UNCHANGED movies
    /\ PosterFrame

\* batch_movies = movies[batch_start : batch_start + batch_size]
BatchMovies(p) == SubSeq(p.found, p.i + 1, Min(Len(p.found), p.i + p.batch_size))

\* lines 95-105: the tasks of the batch are created and gathered
GatherBatch ==
    /\ posters.pc = "batch"
    /\ posters' = [posters EXCEPT !.pc = "gather",
                                  !.tasks = [c \in DOMAIN BatchMovies(posters) |-> CreatedTask]]
    /\ limiter' = [limiter EXCEPT !.co = [c \in DOMAIN BatchMovies(posters) |-> IdleCoroutine]]
    /\ UNCHANGED movies
    /\ PosterFrame

InsideSemaphore == {c \in DOMAIN posters.tasks : posters.tasks[c].pc = "fetching"}

\* fetch_movie_data, lines 45-53: the semaphore, rate_limiter.acquire() and
\* the request
FetchStart(c) ==
    /\ posters.pc = "gather"
    /\ posters.tasks[c].pc = "created"
    /\ Cardinality(InsideSemaphore) < MaxConcurrentRequests
    /\ AcquireBody(c)
    /\ posters' = [posters EXCEPT !.tasks[c].pc =
          CASE limiter'.co[c].pc = "returned" -> "fetching"
            [] limiter'.co[c].pc = "raised" -> "raised"
            [] OTHER -> "sleeping"]
    /\ UNCHANGED movies
    /\ PosterFrame

\* lines 53-62: the answer, or the exception that is caught
FetchEnd(c) ==
    /\ posters.pc = "gather"
    /\ posters.tasks[c].pc = "fetching"
    /\ \E outcome \in FetchOutcomes :
          LET movie_data == IF outcome.kind \in {"data", "list"} THEN Some(outcome)
                            ELSE Null
              id == BatchMovies(posters)[c]
          IN  posters' = [posters EXCEPT
                  !.tasks[c] = [pc |-> "returned", movie_data |-> movie_data],
                  !.fetched[id] = IF IsNull(movie_data) THEN "None" ELSE "data"]
    /\ UNCHANGED <<movies, limiter>>
    /\ PosterFrame

\* if value: (None and the empty string are false)
Truthy(value) == ~IsNull(value) /\ value # Some("")

\* variant: the two paths assigned whatever they are
AssignedUnguarded(row, movie_data) ==
    [row EXCEPT !.poster_path = movie_data.poster_path,
                !.backdrop_path = movie_data.backdrop_path]

\* lines 111-117
Assigned(row, movie_data) ==
    [row EXCEPT !.poster_path = IF Truthy(movie_data.poster_path)
                                THEN movie_data.poster_path ELSE @,
                !.backdrop_path = IF Truthy(movie_data.backdrop_path)
                                  THEN movie_data.backdrop_path ELSE @]

\* lines 105-118: gather has every result; the movies that have data get
\* their paths.  movie_data.get of a list raises, and the assignments made
\* so far are lost with the session main() closes
UpdateBatch ==
    /\ posters.pc = "gather"
    /\ \A c \in DOMAIN posters.tasks : posters.tasks[c].pc = "returned"
    /\ LET batch == BatchMovies(posters)
           with_data == {c \in DOMAIN batch : ~IsNull(posters.tasks[c].movie_data)}
       IN  posters' =
             IF \E c \in with_data : Val(posters.tasks[c].movie_data).kind = "list"
             THEN [posters EXCEPT !.pc = "error"]
             ELSE [posters EXCEPT
               !.pc = "commit",
               !.dirty = [id \in {batch[c] : c \in with_data} |->
                             Assigned(movies[id],
                                 Val(posters.tasks[CHOOSE c \in with_data : batch[c] = id]
                                        .movie_data))]]
    /\ UNCHANGED <<movies, limiter>>
    /\ PosterFrame

\* lines 121-126: session.commit(), or its failure and the rollback; then
\* the next batch
PosterCommit ==
    /\ posters.pc = "commit"
    /\ LET next == [posters EXCEPT !.i = @ + posters.batch_size, !.dirty = <<>>,
                                   !.tasks = <<>>]
           after == IF next.i >= Len(next.found) THEN [next EXCEPT !.pc = "done"]
                    ELSE [next EXCEPT !.pc = "batch"]
       IN  \/ /\ movies' = [id \in DOMAIN movies |->
                               IF id \in DOMAIN posters.dirty THEN posters.dirty[id]
                               ELSE movies[id]]
              /\ posters' = after
           \/ /\ UNCHANGED movies
              /\ posters' = after
    /\ UNCHANGED limiter
    /\ PosterFrame

\* main(), lines 140-143
PosterFailed ==
    /\ posters.pc = "error"
    /\ posters' = [posters EXCEPT !.pc = "stopped"]
    /\ UNCHANGED <<movies, limiter>>
    /\ PosterFrame

\* a stored poster, a stored poster and backdrop, neither, or only the
\* backdrop
PosterProfiles ==
    << <<Some("/p.jpg"), Some("/b.jpg")>>,
       <<Null, Some("/b.jpg")>>,
       <<Null, Null>>,
       <<Some(""), Some("/b.jpg")>> >>

InitPosters ==
    /\ \E f \in [MovieIds -> DOMAIN PosterProfiles] :
          /\ \A i, j \in MovieIds : i < j => f[i] <= f[j]
          /\ movies = [id \in MovieIds |->
                          MovieWithPaths(id, PosterProfiles[f[id]][1], PosterProfiles[f[id]][2])]
    /\ embeddings = <<>>
    /\ sessions = <<>>
    /\ calls = [w \in {"w1"} |-> IdleCall]
    /\ script = <<>>
    /\ transcript = <<>>
    /\ scoring = NoScoring
    /\ requests = [w \in DOMAIN calls |-> IdleRequest]
    /\ InitOffline

NextPosters ==
    \/ PosterMain
    \/ FindMoviesWithoutPoster
    \/ GatherBatch
    \/ \E c \in DOMAIN posters.tasks : FetchStart(c)
    \/ \E c \in DOMAIN posters.tasks : FetchEnd(c)
    \/ UpdateBatch
    \/ PosterCommit
    \/ PosterFailed

SpecPosters == InitPosters /\ [][NextPosters]_vars

(***************************************************************************)
(* Notions the properties below share.                                     *)
(***************************************************************************)
Done(w) == calls[w].pc = "done"

ReturnedList(w) == Done(w) /\ Val(calls[w].outcome).kind = "list"

Rows(w) == Val(calls[w].outcome).rows

IdsOf(rows) == [i \in DOMAIN rows |-> rows[i].movie_id]

\* the score of movie id for the query of a finished ranking call
CallScore(c, id) ==
    ScoreFunction(c.score_metric_version, Val(c.embedding), c.embedding_model,
                  movies[id], embeddings[id])

\* sa sorts strictly before sb in descending order (NULL before any value)
Above(sa, sb) ==
    \/ IsNull(sa) /\ ~IsNull(sb)
    \/ ~IsNull(sa) /\ ~IsNull(sb) /\ Val(sa) > Val(sb)

\* score sa is strictly lower than score sb
Lower(sa, sb) == ~IsNull(sa) /\ ~IsNull(sb) /\ Val(sa) < Val(sb)

\* rows is the slice [off, off+n) of some descending order of the set cand
IsSliceOfRanking(c, rows, cand, off, n) ==
    LET ids == IdsOf(rows)
    IN  /\ Len(rows) = Min(n, Max(0, Cardinality(cand) - off))
        /\ \A i \in DOMAIN rows : ids[i] \in cand /\ rows[i] = movies[ids[i]]
        /\ \A i, j \in DOMAIN rows : i < j =>
              /\ ids[i] # ids[j]
              /\ ~Lower(CallScore(c, ids[i]), CallScore(c, ids[j]))
              /\ ~Above(CallScore(c, ids[j]), CallScore(c, ids[i]))
        /\ \A i \in DOMAIN rows :
              /\ Cardinality({x \in cand : Above(CallScore(c, x), CallScore(c, ids[i]))})
                    <= off + i - 1
              /\ Cardinality({x \in cand : ~Above(CallScore(c, ids[i]), CallScore(c, x))})
                    >= off + i

(***************************************************************************)
(* C1: the list get_recommendations returns is the slice                   *)
(* [offset, offset + per_page), offset = (page - 1) * per_page, of the     *)
(* joined rows in descending order of score: no returned movie has a       *)
(* strictly lower score than one that follows it, and no row ranked before *)
(* or inside the slice is missing.                                         *)
(***************************************************************************)
C1_ResultIsRankedSlice ==
    \A w \in Workers :
        (ReturnedList(w) /\ calls[w].op = "get_recommendations") =>
            IsSliceOfRanking(calls[w], Rows(w), JoinedIds(movies, embeddings),
                             (calls[w].page - 1) * calls[w].per_page, calls[w].per_page)

\* a second page that is not empty, over rows of different scores
C1_Witness ==
    \E w \in Workers :
        /\ ReturnedList(w) /\ calls[w].op = "get_recommendations"
        /\ calls[w].page = 2 /\ Len(Rows(w)) >= 1
        /\ \E x \in JoinedIds(movies, embeddings) :
              Above(CallScore(calls[w], x), CallScore(calls[w], Rows(w)[1].movie_id))

(***************************************************************************)
(* C2: with the corpus and the embedder's answer fixed, two calls of       *)
(* get_recommendations with the same arguments return the same list of     *)
(* movie ids, also when rows have equal scores.                            *)
(***************************************************************************)
C2_SameCallSameList ==
    \A i, j \in DOMAIN transcript :
        (/\ transcript[i].call = transcript[j].call
         /\ transcript[i].call.op = "get_recommendations"
         /\ transcript[i].outcome.kind = "list"
         /\ transcript[j].outcome.kind = "list")
        => IdsOf(transcript[i].outcome.rows) = IdsOf(transcript[j].outcome.rows)

(***************************************************************************)
(* C3: with the corpus unchanged, pages 1..k with page size s, put one     *)
(* after the other, are page 1 with page size k*s, for get_recommendations *)
(* and get_similar_movies, also when rows have equal scores (stated for    *)
(* k >= 2; for k = 1 it is the repeated call of C2).                       *)
(***************************************************************************)
RECURSIVE ConcatRows(_, _)
ConcatRows(t, k) == IF k = 0 THEN <<>> ELSE ConcatRows(t, k - 1) \o t[k].outcome.rows

C3_PagesConcatenate ==
    (/\ script = <<>>
     /\ Len(transcript) >= 3
     /\ \A i \in DOMAIN transcript : transcript[i].outcome.kind = "list"
     /\ transcript[Len(transcript)].call.per_page
           = (Len(transcript) - 1) * transcript[1].call.per_page)
    => IdsOf(ConcatRows(transcript, Len(transcript) - 1))
          = IdsOf(transcript[Len(transcript)].outcome.rows)

(***************************************************************************)
(* C4: the list get_similar_movies(movie_id, ...) returns never holds a    *)
(* movie whose movie_id is the requested one.                              *)
(***************************************************************************)
C4_SelfExclusion ==
    \A w \in Workers :
        (ReturnedList(w) /\ calls[w].op = "get_similar_movies") =>
            \A i \in DOMAIN Rows(w) : Rows(w)[i].movie_id # calls[w].movie_id

\* a first page of similar movies that is not empty
C4_Witness ==
    \E w \in Workers :
        /\ ReturnedList(w) /\ calls[w].op = "get_similar_movies"
        /\ calls[w].page = 1 /\ Len(Rows(w)) >= 1

(***************************************************************************)
(* C5: get_similar_movies returns [] by the normal path, without running   *)
(* the ranking query, when movie_id is unknown, has no embedding row, or   *)
(* has a row whose vector for the requested space is NULL (the store       *)
(* having answered the lookup).                                            *)
(***************************************************************************)
NoTargetVector(c) ==
    \/ c.movie_id \notin DOMAIN embeddings
    \/ IsNull(embeddings[c.movie_id][DbColumn(c.embedding_model)])

C5_EmptyVectorShortCircuit ==
    \A w \in Workers :
        (calls[w].op = "get_similar_movies" /\ NoTargetVector(calls[w])) =>
            /\ calls[w].queries <= 1
            /\ calls[w].pc # "rank"
            /\ (Done(w) /\ ~Contains(sessions[Val(calls[w].session)].log, "failed"))
                  => calls[w].outcome = Some(ListOutcome(<<>>))

\* an embedding row whose vector for the requested space is NULL
C5_Witness ==
    \E w \in Workers :
        /\ Done(w) /\ calls[w].op = "get_similar_movies"
        /\ calls[w].movie_id \in DOMAIN embeddings
        /\ IsNull(embeddings[calls[w].movie_id][DbColumn(calls[w].embedding_model)])
        /\ calls[w].outcome = Some(ListOutcome(<<>>))

(***************************************************************************)
(* C6: a movie with no vector in the selected space (no embedding row, or  *)
(* a NULL column) is in no list get_recommendations or get_similar_movies  *)
(* returns for that space.                                                 *)
(***************************************************************************)
HasVector(id, model) ==
    id \in DOMAIN embeddings /\ ~IsNull(embeddings[id][DbColumn(model)])

C6_NoVectorNotRanked ==
    \A w \in Workers :
        (ReturnedList(w) /\ calls[w].op \in {"get_recommendations", "get_similar_movies"}) =>
            \A i \in DOMAIN Rows(w) : HasVector(Rows(w)[i].movie_id, calls[w].embedding_model)

(***************************************************************************)
(* C7: no step of get_recommendations, get_similar_movies or               *)
(* get_movie_by_id changes a row of either table, and none issues a write  *)
(* or a commit on its session.                                             *)
(***************************************************************************)
NoWrites ==
    \A sid \in DOMAIN sessions :
        ~Contains(sessions[sid].log, "write") /\ ~Contains(sessions[sid].log, "commit")

C7_ReadOnly ==
    /\ [][movies' = movies /\ embeddings' = embeddings]_vars
    /\ []NoWrites

\* get_recommendations has returned movies, its session used for one SELECT
C7_Witness ==
    \E w \in Workers :
        /\ ReturnedList(w) /\ calls[w].op = "get_recommendations"
        /\ Len(Rows(w)) >= 1
        /\ sessions[Val(calls[w].session)].log = <<"select", "close">>

(***************************************************************************)
(* C8: every session a call opened is closed when the call has returned or *)
(* raised; between calls no session is open.                               *)
(***************************************************************************)
C8_SessionsReleased ==
    \A sid \in DOMAIN sessions :
        calls[sessions[sid].owner].pc \in {"idle", "done"} => IsClosed(sessions[sid])

\* the early return of get_similar_movies, its session closed
C8_Witness ==
    \E w \in Workers :
        /\ Done(w) /\ calls[w].op = "get_similar_movies"
        /\ calls[w].queries = 1
        /\ calls[w].outcome = Some(ListOutcome(<<>>))
        /\ IsClosed(sessions[Val(calls[w].session)])

(***************************************************************************)
(* C9: when a store query fails, the session is rolled back, then closed,  *)
(* and then the error reaches the caller: the call never ends with a list, *)
(* a movie or None.                                                        *)
(***************************************************************************)
EndsWith(seq, tail) ==
    Len(seq) >= Len(tail) /\ SubSeq(seq, Len(seq) - Len(tail) + 1, Len(seq)) = tail

C9_StoreFailureSurfaced ==
    \A w \in Workers :
        (~IsNull(calls[w].session) /\ Contains(sessions[Val(calls[w].session)].log, "failed")) =>
            /\ calls[w].pc \in {"except", "finally", "done"}
            /\ calls[w].pc = "finally"
                  => /\ EndsWith(sessions[Val(calls[w].session)].log, <<"failed", "rollback">>)
                     /\ calls[w].pending = Some(ErrorOutcome("StoreError"))
            /\ Done(w)
                  => /\ EndsWith(sessions[Val(calls[w].session)].log,
                                 <<"failed", "rollback", "close">>)
                     /\ calls[w].outcome = Some(ErrorOutcome("StoreError"))

\* the ranking query of get_similar_movies failed after its lookup succeeded
C9_Witness ==
    \E w \in Workers :
        /\ Done(w) /\ calls[w].op = "get_similar_movies"
        /\ sessions[Val(calls[w].session)].log = <<"select", "failed", "rollback", "close">>
        /\ Val(calls[w].outcome).kind = "error"

(***************************************************************************)
(* C10: when the embedding call fails or answers with an empty data list,  *)
(* get_recommendations ends with an error and never with a list; it has    *)
(* called the embedder once, opened no session and issued no query.        *)
(***************************************************************************)
C10_EmbedderFailureSurfaced ==
    \A w \in Workers :
        (calls[w].op = "get_recommendations"
            /\ calls[w].answer \in {"api_error", "empty_data"}) =>
            /\ Done(w)
            /\ Val(calls[w].outcome).kind = "error"
            /\ Val(calls[w].outcome).error \in {"APIError", "IndexError"}
            /\ calls[w].embeds = 1
            /\ IsNull(calls[w].session)
            /\ calls[w].queries = 0
            /\ \A sid \in DOMAIN sessions : sessions[sid].owner # w

\* the answer with an empty data list
C10_Witness ==
    \E w \in Workers :
        /\ Done(w) /\ calls[w].op = "get_recommendations"
        /\ calls[w].answer = "empty_data"
        /\ calls[w].outcome = Some(ErrorOutcome("IndexError"))

(***************************************************************************)
(* C11: a query vector whose length is not the dimensionality of the       *)
(* selected model's column (1536 for ADA_002 and SMALL_3, 3072 for         *)
(* LARGE_3) is refused with a dimensionality error when the score function *)
(* is called: no scoring expression and no statement is built from it, no  *)
(* session is opened and no ranking query is executed.                     *)
(***************************************************************************)
WrongLength(c) ==
    ~IsNull(c.embedding) /\ Val(c.embedding).dim # ColumnDim(DbColumn(c.embedding_model))

C11_WrongLengthRejected ==
    \A w \in Workers :
        (calls[w].op = "get_recommendations" /\ WrongLength(calls[w])) =>
            /\ IsNull(calls[w].session)
            /\ calls[w].queries = 0
            /\ Done(w) => Val(calls[w].outcome) = ErrorOutcome("DimensionalityMismatchError")

(***************************************************************************)
(* C12: a call of get_recommendations or get_similar_movies whose          *)
(* embedding_model is not a member of EmbeddingModel, or whose             *)
(* score_metric_version is not a member of ScoreMetricVersion, ends with a *)
(* configuration error, and has by then called the embedder never, opened  *)
(* no session and issued no query.  The AttributeError Python raises when  *)
(* the argument is used counts as a configuration error here.              *)
(***************************************************************************)
UnknownConfig(c) ==
    \/ c.embedding_model \notin EmbeddingModel
    \/ c.score_metric_version \notin ScoreMetricVersion

C12_UnknownConfigRejected ==
    \A w \in Workers :
        (calls[w].op \in {"get_recommendations", "get_similar_movies"}
            /\ UnknownConfig(calls[w])) =>
            /\ calls[w].embeds = 0
            /\ IsNull(calls[w].session)
            /\ calls[w].queries = 0
            /\ Done(w) => /\ Val(calls[w].outcome).kind = "error"
                          /\ Val(calls[w].outcome).error
                                \in {"ConfigurationError", "AttributeError"}

(***************************************************************************)
(* C13: get_movie_by_id(movie_id) returns the stored Movie whose movie_id  *)
(* is the argument when there is one and None when there is none; the      *)
(* lookup of an absent id does not raise (the store having answered), and  *)
(* the session of the call is closed when it ends.                         *)
(***************************************************************************)
C13_LookupById ==
    \A w \in Workers :
        (Done(w) /\ calls[w].op = "get_movie_by_id") =>
            /\ \A sid \in DOMAIN sessions :
                  sessions[sid].owner = w => IsClosed(sessions[sid])
            /\ ~Contains(sessions[Val(calls[w].session)].log, "failed") =>
                  calls[w].outcome =
                      Some(IF calls[w].movie_id \in DOMAIN movies
                           THEN MovieOutcome(movies[calls[w].movie_id])
                           ELSE NoneOutcome)

\* the lookup of an id no movie has: None, the session closed
C13_Witness ==
    \E w \in Workers :
        /\ Done(w) /\ calls[w].op = "get_movie_by_id"
        /\ calls[w].movie_id \notin DOMAIN movies
        /\ calls[w].outcome = Some(NoneOutcome)
        /\ sessions[Val(calls[w].session)].log = <<"select", "close">>

(***************************************************************************)
(* C14: for page >= 1 and per_page > 0, the list get_recommendations or    *)
(* get_similar_movies returns has min(per_page, max(0, N - (page - 1) *    *)
(* per_page)) movies, N being the number of candidates (the joined rows,   *)
(* without the target for get_similar_movies; none when the target has no  *)
(* vector): never more than per_page, fewer on the last page, none on a    *)
(* page beyond the last.  Such a page is no error: a call ends with an     *)
(* error only when the embedder or the store failed.                       *)
(***************************************************************************)
CandidateCount(c) ==
    IF c.op = "get_recommendations" THEN Cardinality(JoinedIds(movies, embeddings))
    ELSE IF NoTargetVector(c) THEN 0
    ELSE Cardinality(JoinedIds(movies, embeddings) \ {c.movie_id})

PageLength(c) == Min(c.per_page, Max(0, CandidateCount(c) - (c.page - 1) * c.per_page))

C14_PageLength ==
    \A w \in Workers :
        (Done(w) /\ calls[w].op \in {"get_recommendations", "get_similar_movies"}) =>
            /\ ReturnedList(w) => Len(Rows(w)) = PageLength(calls[w])
            /\ Val(calls[w].outcome).kind = "error" =>
                  \/ calls[w].answer \in {"api_error", "empty_data"}
                  \/ Contains(sessions[Val(calls[w].session)].log, "failed")

\* a page beyond the last one of a ranking that has rows: the empty list
C14_Witness ==
    \E w \in Workers :
        /\ ReturnedList(w) /\ calls[w].op = "get_similar_movies"
        /\ calls[w].queries = 2
        /\ CandidateCount(calls[w]) >= 1
        /\ (calls[w].page - 1) * calls[w].per_page >= CandidateCount(calls[w])
        /\ Rows(w) = <<>>

(***************************************************************************)
(* Notions of the properties of the score functions.                       *)
(***************************************************************************)
Scored == scoring.pc = "scored"

HasVotes(id) == ~IsNull(movies[id].vote_average) /\ ~IsNull(movies[id].vote_count)

\* the cosine distance of candidate id to the query vector of the expression
ScoredDistance(id) ==
    CosineDistance(Val(embeddings[id][DbColumn(scoring.embedding_model)]),
                   Val(scoring.embedding))

\* what the score of candidate id holds beyond its similarity term of weight w
BeyondSimilarity(id, w) == Val(scoring.scores[id]) - w * (1000 - ScoredDistance(id))

(***************************************************************************)
(* C15: for a candidate with vote_average in [0, 10] and vote_count >= 0,  *)
(* the popularity part of score_v3, 0.07 * (vote_average / 10) + 0.03 *    *)
(* least(10, log(1 + vote_count)), that is the score less its similarity   *)
(* term 0.9 * (1 - distance), is at most 0.37, however large vote_count.   *)
(***************************************************************************)
C15_PopularityBoundV3 ==
    (Scored /\ scoring.version = "V3") =>
        \A id \in DOMAIN scoring.scores :
            (/\ HasVotes(id)
             /\ Val(movies[id].vote_average) \in 0..100
             /\ Val(movies[id].vote_count) >= 0)
            => BeyondSimilarity(id, 900) <= 370000

\* the greatest rating and the greatest count: 0.07 + 0.03 * log(2147483647)
C15_Witness ==
    /\ Scored /\ scoring.version = "V3"
    /\ \E id \in DOMAIN scoring.scores :
          /\ movies[id].vote_average = Some(100)
          /\ movies[id].vote_count = Some(2147483646)
          /\ BeyondSimilarity(id, 900) >= 349000

(***************************************************************************)
(* C16: under each of score_v1, score_v2 and score_v3, of two candidates   *)
(* that have the same vote_average and the same vote_count, the one at the *)
(* strictly smaller cosine distance from the query vector has the strictly *)
(* greater score.                                                          *)
(***************************************************************************)
SameVotes(i, j) ==
    /\ HasVotes(i) /\ HasVotes(j)
    /\ movies[i].vote_average = movies[j].vote_average
    /\ movies[i].vote_count = movies[j].vote_count

C16_ScoreMonotone ==
    Scored =>
        \A i, j \in DOMAIN scoring.scores :
            (SameVotes(i, j) /\ ScoredDistance(i) < ScoredDistance(j)) =>
                /\ ~IsNull(scoring.scores[i]) /\ ~IsNull(scoring.scores[j])
                /\ Val(scoring.scores[i]) > Val(scoring.scores[j])

\* two candidates of equal votes at distances 0.05 and 0.1, scored by V2
C16_Witness ==
    /\ Scored /\ scoring.version = "V2"
    /\ \E i, j \in DOMAIN scoring.scores :
          /\ SameVotes(i, j)
          /\ ScoredDistance(i) = 50 /\ ScoredDistance(j) = 100
          /\ Val(scoring.scores[i]) > Val(scoring.scores[j])

(***************************************************************************)
(* C17: under each of V1, V2 and V3 the weights of the similarity term,    *)
(* the vote_average term and the vote_count term sum to exactly 1.0: a     *)
(* candidate for which each of the three terms is 1 (cosine distance 0,    *)
(* vote_average 10, vote_count 9, so that log(1 + vote_count) = 1) has the *)
(* score 1.0.                                                              *)
(***************************************************************************)
AllTermsOne(id) ==
    /\ ScoredDistance(id) = 0
    /\ movies[id].vote_average = Some(100)
    /\ movies[id].vote_count = Some(9)

C17_WeightsSumToOne ==
    Scored =>
        \A id \in DOMAIN scoring.scores :
            AllTermsOne(id) => scoring.scores[id] = Some(1000000)

(***************************************************************************)
(* C18: over the corpus A(vote_average 9, vote_count 1000, distance 0.1),  *)
(* B(5, 2, 0.05), C(7, 50, 0.3), the ranking by score_v1 is B, A, C, and   *)
(* in the ranking by score_v3 A stands at or above B.                      *)
(***************************************************************************)
NamesOf(rows) == [i \in DOMAIN rows |-> ScenarioCorpus[rows[i].movie_id].name]

WholeRanking(w) ==
    /\ ReturnedList(w) /\ calls[w].op = "get_recommendations"
    /\ calls[w].page = 1 /\ calls[w].per_page = Len(ScenarioCorpus)

C18_ReferenceScenario ==
    \A w \in Workers :
        WholeRanking(w) =>
            LET names == NamesOf(Rows(w))
            IN  /\ calls[w].score_metric_version = "V1" => names = <<"B", "A", "C">>
                /\ calls[w].score_metric_version = "V3" =>
                      \E i, j \in DOMAIN names :
                          names[i] = "A" /\ names[j] = "B" /\ i <= j

\* the ranking by score_v3 returned: A, B, C
C18_Witness ==
    \E w \in Workers :
        /\ WholeRanking(w)
        /\ calls[w].score_metric_version = "V3"
        /\ NamesOf(Rows(w)) = <<"A", "B", "C">>

(***************************************************************************)
(* C19: with calls of get_recommendations, get_similar_movies and          *)
(* get_movie_by_id running at once, in any interleaving, every call works  *)
(* on a session it made itself, no session is used by two calls, and what  *)
(* a call returns is what the same call can return when it runs alone on   *)
(* the same corpus.                                                        *)
(***************************************************************************)
\* the lists the ranking statement stmt can give
ListsOf(stmt) ==
    IF DimensionMismatch(movies, embeddings, stmt) THEN {}
    ELSE {ListOutcome(r) : r \in RankingResults(movies, embeddings, stmt)}

\* the outcomes of call c when nothing else runs
OutcomesAlone(c) ==
    CASE c.op = "get_movie_by_id" ->
           {ErrorOutcome("StoreError"),
            IF c.movie_id \in DOMAIN movies THEN MovieOutcome(movies[c.movie_id])
            ELSE NoneOutcome}
      [] c.op = "get_recommendations" ->
           IF c.answer = "api_error" THEN {ErrorOutcome("APIError")}
           ELSE IF c.answer = "empty_data" THEN {ErrorOutcome("IndexError")}
           ELSE {ErrorOutcome("StoreError")} \cup
                ListsOf(RecommendStmt(AnswerVector(c.answer, ModelName(c.embedding_model)),
                                      c.embedding_model, c.score_metric_version,
                                      c.page, c.per_page))
      [] c.op = "get_similar_movies" ->
           {ErrorOutcome("StoreError")} \cup
           (IF NoTargetVector(c) THEN {ListOutcome(<<>>)}
            ELSE ListsOf(SimilarStmt(c.movie_id,
                                     Val(embeddings[c.movie_id][DbColumn(c.embedding_model)]),
                                     c.embedding_model, c.score_metric_version,
                                     c.page, c.per_page)))

C19_NoSessionSharing ==
    /\ \A sid \in DOMAIN sessions : sessions[sid].users \subseteq {sessions[sid].owner}
    /\ \A w \in Workers :
          ~IsNull(calls[w].session) =>
              /\ Val(calls[w].session) \in DOMAIN sessions
              /\ sessions[Val(calls[w].session)].owner = w
    /\ \A w \in Workers : Done(w) => Val(calls[w].outcome) \in OutcomesAlone(calls[w])

\* two calls in the store at once, each with its own session, one of them
\* back with movies
C19_Witness ==
    \E v, w \in Workers :
        /\ v # w
        /\ ReturnedList(v) /\ Len(Rows(v)) >= 1
        /\ calls[w].pc = "finally" /\ Val(calls[w].pending).kind = "movie"
        /\ sessions[Val(calls[v].session)].users = {v}
        /\ sessions[Val(calls[w].session)].users = {w}
        /\ ~IsClosed(sessions[Val(calls[w].session)])

(***************************************************************************)
(* C20: GET /movie/{movie_id} answers 404, without calling                 *)
(* get_similar_movies, exactly when get_movie_by_id returned None; when it *)
(* returned a movie and get_similar_movies returned its list, empty or     *)
(* not, the answer is the detail page of that movie with that list.  GET   *)
(* /api/recommendations answers with success and the movies                *)
(* get_recommendations returned, so with an empty movies list when the     *)
(* page is beyond the result count.                                        *)
(***************************************************************************)
Responded(w) == requests[w].pc = "responded"

Response(w) == Val(requests[w].response)

C20_NotFoundAndEmptyPage ==
    \A w \in Workers :
        /\ (Responded(w) /\ requests[w].route = "movie_detail") =>
              /\ (Response(w).status = 404) <=> (Val(requests[w].lookup).kind = "none")
              /\ Response(w).status = 404 => requests[w].similar_calls = 0
              /\ Val(requests[w].lookup).kind = "movie" =>
                    /\ requests[w].similar_calls = 1
                    /\ Response(w).status \in {200, 500}
                    /\ Response(w).status = 200 =>
                          /\ Response(w).movie = Some(movies[requests[w].movie_id])
                          /\ \A i \in DOMAIN Response(w).movies :
                                Response(w).movies[i].movie_id # requests[w].movie_id
        /\ (requests[w].route = "movie_detail" /\ requests[w].pc = "similar_movies"
                /\ ReturnedList(w)) =>
              Val(requests[w].lookup).kind = "movie"
        /\ (Responded(w) /\ requests[w].route = "load_more_recommendations") =>
              /\ Response(w).status \in {200, 500}
              /\ (Response(w).status = 200
                     /\ (requests[w].page - 1) * WebPerPage
                            >= Cardinality(JoinedIds(movies, embeddings)))
                    => Response(w).movies = <<>>

\* an id no movie has: 404, get_similar_movies not called
C20_Witness ==
    \E w \in Workers :
        /\ Responded(w) /\ requests[w].route = "movie_detail"
        /\ requests[w].movie_id \notin DOMAIN movies
        /\ Response(w) = HttpNotFound
        /\ requests[w].similar_calls = 0

(***************************************************************************)
(* C21: when the embedding call fails while POST / or GET                  *)
(* /api/recommendations is served, the handler itself turns the failure    *)
(* into a server-error response: the embedder's exception does not leave   *)
(* the handler function untranslated, and the response is a server error,  *)
(* not the success response with an empty list.                            *)
(***************************************************************************)
EmbedderFailures == {"APIError", "IndexError"}

C21_EmbedderFailureTranslated ==
    \A w \in Workers :
        (Responded(w)
            /\ requests[w].route \in {"recommend", "load_more_recommendations"}) =>
            /\ (IsNull(requests[w].escaped)
                  \/ Val(requests[w].escaped) \notin EmbedderFailures)
            /\ Response(w).status = 200 => IsNull(requests[w].escaped)

(***************************************************************************)
(* C22: in every recommendation call the prompt is embedded with the model *)
(* whose vectors the column of the distance expression holds, whatever the *)
(* embedding-model argument is: in get_recommendations, and in the test's  *)
(* recommend_movies when its embedding_model argument is varied.           *)
(***************************************************************************)
C22_SameEmbeddingSpace ==
    /\ \A w \in Workers :
          (calls[w].op = "get_recommendations" /\ calls[w].embeds = 1
              /\ calls[w].embedding_model \in EmbeddingModel) =>
              ColumnFilledBy(DbColumn(calls[w].embedding_model))
                  = ModelName(calls[w].embedding_model)
    /\ (~IsNull(test.embedded_with) /\ ~IsNull(test.column)) =>
          ColumnFilledBy(Val(test.column)) = Val(test.embedded_with)

(***************************************************************************)
(* C23: for a movie m that has a vector v in the selected space, the list  *)
(* get_similar_movies(m, page, per_page) returns is page `page` of a       *)
(* ranking the statement of get_recommendations gives for the query vector *)
(* v over the tables without m: the exclusion comes before OFFSET and      *)
(* LIMIT, so the page has per_page movies whenever that many other         *)
(* candidates remain after the offset.                                     *)
(***************************************************************************)
MoviesWithout(movie_id) == [id \in DOMAIN movies \ {movie_id} |-> movies[id]]

TextPipelinePages(c) ==
    RankingResults(MoviesWithout(c.movie_id), embeddings,
                   RecommendStmt(Val(c.embedding), c.embedding_model,
                                 c.score_metric_version, c.page, c.per_page))

C23_ExclusionBeforePagination ==
    \A w \in Workers :
        (ReturnedList(w) /\ calls[w].op = "get_similar_movies" /\ calls[w].queries = 2) =>
            /\ Rows(w) \in TextPipelinePages(calls[w])
            /\ Len(Rows(w)) =
                  Min(calls[w].per_page,
                      Max(0, Cardinality(JoinedIds(MoviesWithout(calls[w].movie_id), embeddings))
                              - (calls[w].page - 1) * calls[w].per_page))

\* a full first page although the movie itself would have been on it
C23_Witness ==
    \E w \in Workers :
        /\ ReturnedList(w) /\ calls[w].op = "get_similar_movies" /\ calls[w].queries = 2
        /\ calls[w].page = 1 /\ calls[w].per_page = MaxPerPage
        /\ Len(Rows(w)) = MaxPerPage
        /\ calls[w].movie_id \in JoinedIds(movies, embeddings)
        /\ \A id \in JoinedIds(movies, embeddings) \ {calls[w].movie_id} :
              Above(CallScore(calls[w], calls[w].movie_id), CallScore(calls[w], id))

(***************************************************************************)
(* Notions of C24: the transcript of the client that asks for page 2 under *)
(* each version; t is one entry of it.                                     *)
(***************************************************************************)
TargetVector(t) == embeddings[t.call.movie_id][DbColumn(t.call.embedding_model)]

\* the call of entry t as the ranking saw it
RankedCall(t) ==
    [score_metric_version |-> t.call.score_metric_version,
     embedding |-> TargetVector(t),
     embedding_model |-> t.call.embedding_model]

Others(t) == JoinedIds(movies, embeddings) \ {t.call.movie_id}

\* the rows of entry t are a first page of the ranking
IsFirstPage(t) ==
    IsSliceOfRanking(RankedCall(t), t.outcome.rows, Others(t), 0, t.call.per_page)

\* every version was asked and answered with a list, for a movie that has a
\* vector in the selected space
AllVersionsAnswered ==
    /\ script = <<>>
    /\ Len(transcript) = Len(VersionOrder)
    /\ \A i \in DOMAIN transcript :
          /\ transcript[i].call.op = "get_similar_movies"
          /\ transcript[i].call.page = 2
          /\ transcript[i].outcome.kind = "list"
          /\ HasVector(transcript[i].call.movie_id, transcript[i].call.embedding_model)

(***************************************************************************)
(* C24, as stated: for get_similar_movies there is a ScoreMetricVersion    *)
(* under which the offset is ignored, page 2 being a first page of the     *)
(* ranking (while under another version the offset is applied).            *)
(***************************************************************************)
C24_OffsetIgnoredUnderSomeVersion ==
    AllVersionsAnswered => \E i \in DOMAIN transcript : IsFirstPage(transcript[i])

(***************************************************************************)
(* C24, amended: get_similar_movies applies the offset                     *)
(* (page - 1) * per_page under every ScoreMetricVersion: the list it       *)
(* returns is the slice [offset, offset + per_page) of the ranking of the  *)
(* other movies.                                                           *)
(***************************************************************************)
C24_OffsetAppliedUnderEveryVersion ==
    \A i \in DOMAIN transcript :
        (/\ transcript[i].call.op = "get_similar_movies"
         /\ transcript[i].outcome.kind = "list"
         /\ HasVector(transcript[i].call.movie_id, transcript[i].call.embedding_model))
        => IsSliceOfRanking(RankedCall(transcript[i]), transcript[i].outcome.rows,
                            Others(transcript[i]),
                            (transcript[i].call.page - 1) * transcript[i].call.per_page,
                            transcript[i].call.per_page)

\* under each of the three versions a second page that has a movie and is
\* no first page
C24_Witness ==
    /\ AllVersionsAnswered
    /\ \A i \in DOMAIN transcript :
          /\ Len(transcript[i].outcome.rows) >= 1
          /\ ~IsFirstPage(transcript[i])

(***************************************************************************)
(* C25: for a RateLimiter with max_requests_per_minute = M >= 1 and        *)
(* coroutines calling acquire() in any interleaving of their awaits, at    *)
(* most M calls are granted within any 60-second window (for every grant,  *)
(* at most M grants lie in the 60 seconds that end with it), and right     *)
(* after every grant the list requests holds at most M timestamps, all     *)
(* younger than 60 seconds.                                                *)
(***************************************************************************)
GrantsInWindowTo(l, t) ==
    Cardinality({i \in DOMAIN l.grants : l.grants[i] <= t /\ t - l.grants[i] < Window})

GrantStep == Len(limiter'.grants) > Len(limiter.grants)

C25_WindowBound ==
    [][(limiter.max_requests >= 1 /\ GrantStep) =>
          /\ \A i \in DOMAIN limiter'.grants :
                GrantsInWindowTo(limiter', limiter'.grants[i]) <= limiter.max_requests
          /\ Len(limiter'.requests) <= limiter.max_requests
          /\ \A i \in DOMAIN limiter'.requests :
                limiter'.time - limiter'.requests[i] < Window]_vars

\* a coroutine that had to sleep is granted its request when the limit of
\* the minute is reached again with it
C25_Witness ==
    \E c \in Coroutines :
        /\ limiter.max_requests >= 1
        /\ limiter.co[c].pc = "returned" /\ limiter.co[c].sleeps >= 1
        /\ Len(limiter.grants) > limiter.max_requests
        /\ Len(limiter.requests) = limiter.max_requests
        /\ limiter.requests[Len(limiter.requests)] = limiter.time

(***************************************************************************)
(* C26: for every max_requests_per_minute >= 0 and every finite set of     *)
(* coroutines calling acquire() concurrently, each call returns normally   *)
(* once enough time has passed; no call raises.  Stated here for what a    *)
(* finite run shows: no call of acquire() ends with an exception.          *)
(***************************************************************************)
C26_NoAcquireRaises ==
    \A c \in Coroutines : limiter.co[c].pc # "raised"

(***************************************************************************)
(* Notions of C27 and C28: batch b of generate_missing_embeddings.         *)
(***************************************************************************)
BatchIds(b) == {generation.batches[b][j] : j \in DOMAIN generation.batches[b]}

\* the three embedder calls of the batch returned the data of every movie
CallsSucceeded(b) ==
    /\ ~IsNull(generation.tasks[b].result)
    /\ Val(generation.tasks[b].result).kind = "results"
    /\ \A f \in Futures :
          Val(generation.tasks[b].result).data[f] = Len(generation.batches[b])

Committed(b) == BatchIds(b) \subseteq DOMAIN embeddings

(***************************************************************************)
(* C27: generate_missing_embeddings returns normally whatever happens to   *)
(* its batches (only its first query can make it raise, before any batch   *)
(* exists); when it has returned, every batch has been handled, every      *)
(* batch whose three embedder calls succeeded has had its save attempted,  *)
(* and every batch whose calls and commit succeeded has its rows in the    *)
(* table, whatever the other batches did and in whatever order the tasks   *)
(* completed.                                                              *)
(***************************************************************************)
C27_BatchIsolation ==
    /\ generation.pc = "raised" => generation.tasks = <<>>
    /\ generation.pc = "done" =>
          \A b \in DOMAIN generation.tasks :
              /\ generation.tasks[b].status \in {"saved", "failed"}
              /\ CallsSucceeded(b) => generation.tasks[b].commit # "none"
              /\ (CallsSucceeded(b) /\ generation.tasks[b].commit = "ok") => Committed(b)

\* the first batch failed in its embedder calls, the last one is saved
C27_Witness ==
    /\ generation.pc = "done"
    /\ Len(generation.tasks) >= 2
    /\ generation.tasks[1].status = "failed"
    /\ Val(generation.tasks[1].result).kind = "error"
    /\ generation.tasks[Len(generation.tasks)].status = "saved"
    /\ Committed(Len(generation.tasks))

(***************************************************************************)
(* C28: at every moment, for every batch, either every movie of the batch  *)
(* has a committed embedding row or none has; a batch that failed (a       *)
(* failed embedder call, a response without an entry for a movie, a failed *)
(* commit) has none; and no committed row lacks one of the three vectors.  *)
(***************************************************************************)
C28_BatchAtomicity ==
    /\ \A b \in DOMAIN generation.batches :
          /\ Committed(b) \/ BatchIds(b) \cap DOMAIN embeddings = {}
          /\ generation.tasks[b].status = "failed" =>
                BatchIds(b) \cap DOMAIN embeddings = {}
    /\ \A id \in DOMAIN embeddings :
          /\ ~IsNull(embeddings[id].embedding_ada_002)
          /\ ~IsNull(embeddings[id].embedding_3_small)
          /\ ~IsNull(embeddings[id].embedding_3_large)

\* a batch of two movies whose save ended at the missing entry of the
\* second one, beside a batch that is saved
C28_Witness ==
    \E b, c \in DOMAIN generation.batches :
        /\ Len(generation.batches[b]) >= 2
        /\ generation.tasks[b].status = "failed"
        /\ Val(generation.tasks[b].result).kind = "results"
        /\ generation.tasks[b].commit = "none"
        /\ BatchIds(b) \cap DOMAIN embeddings = {}
        /\ generation.tasks[c].status = "saved" /\ Committed(c)

(***************************************************************************)
(* C29: in every committed state reached while                             *)
(* remove_movies_without_poster and remove_movies_without_backdrop run,    *)
(* also when they stop with an error between batches, every embedding row  *)
(* refers to an existing movie; and when both have completed without       *)
(* error, no movie with a NULL or empty poster_path or backdrop_path       *)
(* remains.                                                                *)
(***************************************************************************)
C29_ReferentialIntegrity ==
    /\ \A id \in DOMAIN embeddings : id \in DOMAIN movies
    /\ removal.pc = "done" =>
          \A id \in DOMAIN movies :
              /\ ~Without(movies[id], "poster_path")
              /\ ~Without(movies[id], "backdrop_path")

\* stopped by an error after a batch was committed: movies with embedding
\* rows are gone, a movie without poster is still there
C29_Witness ==
    /\ removal.pc = "stopped"
    /\ removal.i >= 1
    /\ Cardinality(DOMAIN movies) < MaxMovies
    /\ \E id \in DOMAIN movies : Without(movies[id], "poster_path")
    /\ \E id \in DOMAIN movies : id \in DOMAIN embeddings


\* the columns of a movie other than poster_path and backdrop_path
OtherColumns(row) == [row EXCEPT !.poster_path = Null, !.backdrop_path = Null]

\* the value of a path column is what it was, or a path that is not empty
KeptOrPath(now, was) == now = was \/ Truthy(now)

====
